---- MODULE Spec2Model ----
(***************************************************************************)
(* State-machine model of the test-generation backend:                     *)
(*   - TestCaseParser.parse and deduplicate_test_cases  (SpecParse)        *)
(*   - GeminiChain / GitHubModelsChain generate()       (SpecGen)          *)
(*   - RateLimiter.acquire                              (SpecLimiter)      *)
(* Each specification drives its own group of variables and leaves the     *)
(* other groups untouched.                                                 *)
(*                                                                         *)
(* Text is modelled as a sequence of words (the text is the words joined   *)
(* by single spaces); len() of a text is computed from the words.          *)
(***************************************************************************)
EXTENDS Integers, Sequences, FiniteSets, TLC

VARIABLES
  \* ---- TestCaseParser.parse ----
  raw_data,        \* the raw JSON object handed to parse()
  strict_mode,     \* parse() argument
  min_cases,       \* parse() argument
  parse_pc,        \* "call" before parse() ran, "done" after
  parse_out        \* what parse() computed and how it ended

parse_vars == <<raw_data, strict_mode, min_cases, parse_pc, parse_out>>

VARIABLES
  \* ---- GeminiChain / GitHubModelsChain: one generate() request ----
  gateway,         \* "gemini" (primary) or "github" (secondary)
  settings,        \* the configuration the gateway instance read
  gen,             \* generate(): position, locals and result
  call             \* the _call_gemini / _call_model invocation in progress

gen_vars == <<gateway, settings, gen, call>>

VARIABLES
  \* ---- RateLimiter: one limiter instance and the coroutines using it ----
  limiter,         \* the RateLimiter object, its asyncio.Lock included
  clock,           \* time.monotonic(), in seconds
  today,           \* date.today(), as a day number
  callers,         \* per coroutine: where it is in acquire()
  log              \* what acquire() calls were made and how they ended

lim_vars == <<limiter, clock, today, callers, log>>

VARIABLES
  \* ---- deduplicate_test_cases: one call ----
  dd_cases,        \* the list of TestCase objects handed to the function
  dd_pc,           \* "call" before the function ran, "done" after
  dd_out           \* what the function returned and what its loops did

dedup_vars == <<dd_cases, dd_pc, dd_out>>

VARIABLES
  \* ---- overlapping requests of the primary gateway ----
  configured_key,  \* the api_key last passed to genai.configure, as an index
  reqs             \* per request: its _call_gemini invocation

conc_vars == <<configured_key, reqs>>

VARIABLES
  \* ---- TestCaseParser._normalize_scenario_type: one call ----
  norm_raw,        \* the raw case object handed to the function
  norm_pc,         \* "call" before the function ran, "done" after
  norm_out         \* the ScenarioType it returned

norm_vars == <<norm_raw, norm_pc, norm_out>>

VARIABLES
  \* ---- gateway instances of one backend constructed in one process ----
  _rate_limiter,   \* the class attribute GeminiChain / GitHubModelsChain._rate_limiter
  chains,          \* the constructor calls made so far, in order
  inst_clock,      \* time.monotonic(), in seconds
  inst_log         \* the acquire() calls made through the instances

inst_vars == <<_rate_limiter, chains, inst_clock, inst_log>>

VARIABLES
  \* ---- GitHubModelsChain._build_prompt_with_budget: one call ----
  budget_in,       \* max_input_tokens and the lengths of the texts involved
  budget_pc,       \* "call" before the function ran, "done" after
  budget_out       \* the prompt returned, as what it is made of

budget_vars == <<budget_in, budget_pc, budget_out>>

\* the parts that are checked on their own
aux_vars == <<norm_vars, inst_vars, budget_vars>>

vars == <<parse_vars, gen_vars, lim_vars, dedup_vars, conc_vars, aux_vars>>

(***************************************************************************)
(* Bounds of the model.                                                    *)
(***************************************************************************)
MaxRawCases == 3
MaxMinCases == 3
MaxDedupCases == 3
NumRequests == 2

(***************************************************************************)
(* Enumerations (test_case_models.py).                                     *)
(***************************************************************************)
ScenarioType ==
  {"happy_path", "edge_case", "negative", "boundary", "security", "performance"}

Severity == {"critical", "major", "minor", "trivial"}

SEVERITY_DEFAULTS(t) ==
  CASE t = "happy_path"  -> "critical"
    [] t = "negative"    -> "major"
    [] t = "edge_case"   -> "major"
    [] t = "boundary"    -> "minor"
    [] t = "security"    -> "critical"
    [] t = "performance" -> "minor"

RequiredTypes == <<"happy_path", "negative", "edge_case">>

SeqToSet(s) == {s[i] : i \in 1..Len(s)}

(***************************************************************************)
(* Text helpers.                                                           *)
(***************************************************************************)
RECURSIVE SumWordLen(_)
SumWordLen(t) == IF t = <<>> THEN 0 ELSE Len(Head(t)) + SumWordLen(Tail(t))

\* len() of the text whose words are t, joined by single spaces
TextLen(t) == IF t = <<>> THEN 0 ELSE SumWordLen(t) + Len(t) - 1

\* str.lower() on the words of the vocabulary that carry capitals
Lower(w) ==
  CASE w = "Login"  -> "login"
    [] w = "Reject" -> "reject"
    [] w = "Enter"  -> "enter"
    [] OTHER        -> w

\* str(j) for the small integers that occur
ToStr(n) ==
  CASE n = 1 -> "1" [] n = 2 -> "2" [] n = 3 -> "3" [] n = 4 -> "4"
    [] n = 5 -> "5" [] OTHER -> "9"

\* the keywords of _normalize_scenario_type that occur as a substring of a
\* (lower-cased) word of the vocabulary
KeywordsIn(w) ==
  CASE w = "limit"    -> {"limit"}
    [] w = "limits"   -> {"limit"}
    [] w = "reject"   -> {"reject"}
    [] w = "invalid"  -> {"invalid"}
    [] w = "edge"     -> {"edge"}
    [] w = "overload" -> {"load"}
    [] w = "xss"      -> {"xss"}
    [] OTHER          -> {}

\* any(k in hint_text for k in keys), hint_text being a text of words
AnyKeyword(hint, keys) ==
  \E i \in 1..Len(hint) : KeywordsIn(Lower(hint[i])) \cap keys # {}

(***************************************************************************)
(* Raw JSON values.  A field of a raw object is absent, a string (its      *)
(* words in text), or some other JSON value (null, number, list, ...).     *)
(***************************************************************************)
Absent == [kind |-> "absent", text |-> <<>>]
Str(t) == [kind |-> "str", text |-> t]
NonStr == [kind |-> "other", text |-> <<>>]

\* a raw step that is a JSON object
ObjStep(action, expected) ==
  [isObj |-> TRUE, step_number |-> 0, action |-> action, expected_result |-> expected]
\* a raw step object that carries its own "step_number" n
NumberedStep(n, action, expected) ==
  [ObjStep(action, expected) EXCEPT !.step_number = n]
\* a raw step that is not an object; text is str(raw_step)
PlainStep(t) ==
  [isObj |-> FALSE, step_number |-> 0, action |-> Str(t), expected_result |-> Absent]

\* str(raw.get("scenario_type", "")).strip().lower().replace(" ", "_")
\* on the raw values that occur ("" stands for an absent field as well)
NormRawType(s) ==
  CASE s = "Positive"   -> "positive"
    [] s = " Edge Case" -> "edge_case"
    [] OTHER            -> s

AliasKeys ==
  {"happy", "happy_path", "positive", "negative", "error", "failure",
   "invalid", "edge", "edge_case", "boundary", "security", "performance"}

aliases(k) ==
  CASE k \in {"happy", "happy_path", "positive"}          -> "happy_path"
    [] k \in {"negative", "error", "failure", "invalid"}   -> "negative"
    [] k \in {"edge", "edge_case"}                         -> "edge_case"
    [] k = "boundary"                                      -> "boundary"
    [] k = "security"                                      -> "security"
    [] k = "performance"                                   -> "performance"

\* a faulty variant: the keyword heuristics are consulted before the aliases
NormalizeKeywordsFirst(raw) ==
  LET raw_type  == NormRawType(raw.scenario_type)
      hint_text == raw.title.text \o raw.tags
  IN  IF AnyKeyword(hint_text, {"edge", "boundary", "limit", "corner", "extreme"})
        THEN "edge_case"
      ELSE IF AnyKeyword(hint_text, {"invalid", "error", "fail", "reject", "unauthorized"})
        THEN "negative"
      ELSE IF AnyKeyword(hint_text, {"security", "xss", "csrf", "injection"})
        THEN "security"
      ELSE IF AnyKeyword(hint_text, {"performance", "load", "latency", "stress"})
        THEN "performance"
      ELSE IF raw_type \in AliasKeys THEN aliases(raw_type)
      ELSE "happy_path"

\* TestCaseParser._normalize_scenario_type
_normalize_scenario_type(raw) ==
  LET raw_type  == NormRawType(raw.scenario_type)
      hint_text == raw.title.text \o raw.tags
  IN  IF raw_type \in AliasKeys THEN aliases(raw_type)
      ELSE IF AnyKeyword(hint_text, {"edge", "boundary", "limit", "corner", "extreme"})
        THEN "edge_case"
      ELSE IF AnyKeyword(hint_text, {"invalid", "error", "fail", "reject", "unauthorized"})
        THEN "negative"
      ELSE IF AnyKeyword(hint_text, {"security", "xss", "csrf", "injection"})
        THEN "security"
      ELSE IF AnyKeyword(hint_text, {"performance", "load", "latency", "stress"})
        THEN "performance"
      ELSE "happy_path"

\* pydantic: a str field with min_length/max_length
ValidStr(f, lo, hi) == f.kind = "str" /\ TextLen(f.text) >= lo /\ TextLen(f.text) <= hi

\* TestStep(...) accepts the step (action and expected_result: str, min_length 3)
TestStepValid(action, expected) ==
  ValidStr(action, 3, 1000000) /\ ValidStr(expected, 3, 1000000)

\* the action / expected_result that _parse_single_case hands to TestStep for
\* raw step rs at 0-based position j
StepAction(rs, j) ==
  IF rs.isObj /\ rs.action.kind = "absent"
    THEN Str(<<"Step", ToStr(j + 1)>>)
    ELSE rs.action

StepExpected(rs) ==
  IF rs.isObj /\ rs.expected_result.kind # "absent"
    THEN rs.expected_result
    ELSE Str(<<"Result", "not", "specified">>)

\* TestCase.steps_sequential: step i (0-based) gets step_number i + 1
steps_zero_based(v) ==
  [i \in 1..Len(v) |-> [v[i] EXCEPT !.step_number = i - 1]]

steps_sequential(v) ==
  [i \in 1..Len(v) |->
     IF v[i].step_number # i THEN [v[i] EXCEPT !.step_number = i] ELSE v[i]]

\* TestCase(...) accepts the case: title 5..300 chars, at least one step
TestCaseValid(title, steps) == ValidStr(title, 5, 300) /\ Len(steps) >= 1

NoCase ==
  [src |-> 0, title |-> <<>>, scenario_type |-> "happy_path",
   severity |-> "minor", preconditions |-> <<>>, steps |-> <<>>,
   tags |-> <<>>, is_edge_case |-> FALSE]

\* TestCaseParser._parse_single_case for raw object raw at 0-based index.
\* ok = FALSE stands for any exception raised on the way.  src is the
\* 1-based position of the raw entry the case was built from (the role of
\* the generated test_id: it identifies the object).
_parse_single_case(raw, index) ==
  LET n     == Len(raw.steps)
      stepsOk == \A j \in 1..n :
                   TestStepValid(StepAction(raw.steps[j], j - 1),
                                 StepExpected(raw.steps[j]))
      steps == [j \in 1..n |->
                  [step_number |-> j,
                   action |-> StepAction(raw.steps[j], j - 1).text,
                   expected_result |-> StepExpected(raw.steps[j]).text]]
      scenario_type == _normalize_scenario_type(raw)
      severity == IF raw.severity \in Severity THEN raw.severity
                  ELSE SEVERITY_DEFAULTS(scenario_type)
      title == IF raw.title.kind = "absent"
                 THEN Str(<<"Test", "Case", ToStr(index + 1)>>)
                 ELSE raw.title
      ok == stepsOk /\ TestCaseValid(title, steps)
  IN  [ok |-> ok,
       tc |-> IF ~ok THEN NoCase
              ELSE [src |-> index + 1,
                    title |-> title.text,
                    scenario_type |-> scenario_type,
                    severity |-> severity,
                    preconditions |-> raw.preconditions,
                    steps |-> steps_sequential(steps),
                    tags |-> raw.tags,
                    is_edge_case |-> raw.is_edge_case
                       \/ scenario_type \in {"edge_case", "boundary"}]]


(***************************************************************************)
(* deduplicator.py                                                         *)
(***************************************************************************)
\* words of the vocabulary without a word character: r'\b\w+\b' finds
\* nothing in them
Punctuation == {"...", "-->"}

\* re.findall(r'\b\w+\b', w.lower()) for one word w of a text
_tokenize(w) == IF w \in Punctuation THEN {} ELSE {Lower(w)}

\* _tokenize(_steps_text(tc)): the lower-cased words of all step actions
_tokenize_steps(tc) ==
  UNION {UNION {_tokenize(tc.steps[i].action[k]) : k \in 1..Len(tc.steps[i].action)} :
           i \in 1..Len(tc.steps)}

\* _jaccard_similarity(a, b) >= threshold, threshold = ThresholdPct / 100
ThresholdPct == 85

_jaccard_above(set_a, set_b) ==
  IF set_a = {} /\ set_b = {} THEN TRUE
  ELSE Cardinality(set_a \cap set_b) * 100 > ThresholdPct * Cardinality(set_a \cup set_b)

_jaccard_similar(set_a, set_b) ==
  IF set_a = {} /\ set_b = {} THEN TRUE
  ELSE Cardinality(set_a \cap set_b) * 100 >= ThresholdPct * Cardinality(set_a \cup set_b)

\* _merge_preconditions: existing is computed once, before the loop
_merge_preconditions(keeper, removed) ==
  LET existing == SeqToSet(keeper.preconditions)
      notThere(pre) == pre \notin existing
  IN  [keeper EXCEPT !.preconditions = @ \o SelectSeq(removed.preconditions, notThere)]

\* "if len(cases[j].steps) > len(cases[i].steps)": the later case j is the
\* one to keep
KeepLaterOnTie(ci, cj) == Len(cj.steps) >= Len(ci.steps)

KeepLater(ci, cj) == Len(cj.steps) > Len(ci.steps)

\* a faulty variant: the preconditions are merged both ways
MergedBothWays(st, k, r) ==
  [cases  |-> [st.cases EXCEPT ![k] = _merge_preconditions(@, st.cases[r]),
                               ![r] = _merge_preconditions(@, st.cases[k])],
   keep   |-> [st.keep EXCEPT ![r] = FALSE],
   merges |-> Append(st.merges,
                [keeper  |-> k,
                 removed |-> r,
                 before  |-> st.cases[k].preconditions,
                 from    |-> st.cases[r].preconditions,
                 after   |-> _merge_preconditions(st.cases[k], st.cases[r]).preconditions])]

\* one duplicate found: merge the preconditions of case r into case k and
\* mark r as removed.  merges is the history of these events (positions in
\* the input, the precondition lists before and after).
Merged(st, k, r) ==
  [cases  |-> [st.cases EXCEPT ![k] = _merge_preconditions(@, st.cases[r])],
   keep   |-> [st.keep EXCEPT ![r] = FALSE],
   merges |-> Append(st.merges,
                [keeper  |-> k,
                 removed |-> r,
                 before  |-> st.cases[k].preconditions,
                 from    |-> st.cases[r].preconditions,
                 after   |-> _merge_preconditions(st.cases[k], st.cases[r]).preconditions])]

\* the inner loop of deduplicate_test_cases, from j on, for outer index i;
\* st = [cases, keep, merges]
RECURSIVE DedupInner(_, _, _)
\* a faulty variant: case i is compared with the next case only
DedupInnerNextOnly(st, i, j) ==
  IF j > Len(st.cases) THEN st
  ELSE IF ~st.keep[j] THEN st
  ELSE IF st.cases[i].scenario_type # st.cases[j].scenario_type THEN st
  ELSE IF _jaccard_similar(_tokenize_steps(st.cases[i]), _tokenize_steps(st.cases[j]))
    THEN IF KeepLater(st.cases[i], st.cases[j])
           THEN Merged(st, j, i)
           ELSE Merged(st, i, j)
  ELSE st

DedupInner(st, i, j) ==
  IF j > Len(st.cases) THEN st
  ELSE IF ~st.keep[j] THEN DedupInner(st, i, j + 1)
  ELSE IF st.cases[i].scenario_type # st.cases[j].scenario_type
    THEN DedupInner(st, i, j + 1)
  ELSE IF _jaccard_similar(_tokenize_steps(st.cases[i]), _tokenize_steps(st.cases[j]))
    THEN IF KeepLater(st.cases[i], st.cases[j])
           THEN \* keep j, drop i, break
                Merged(st, j, i)
           ELSE DedupInner(Merged(st, i, j), i, j + 1)
  ELSE DedupInner(st, i, j + 1)

RECURSIVE DedupOuter(_, _)
DedupOuter(st, i) ==
  IF i > Len(st.cases) THEN st
  ELSE IF ~st.keep[i] THEN DedupOuter(st, i + 1)
  ELSE DedupOuter(DedupInner(st, i, i + 1), i + 1)

RECURSIVE KeptCases(_, _)
KeptCasesKeptFirst(cases, keep) ==
  IF cases = <<>> THEN <<>>
  ELSE KeptCases(Tail(cases), Tail(keep))
         \o (IF Head(keep) THEN <<Head(cases)>> ELSE <<>>)

KeptCases(cases, keep) ==
  IF cases = <<>> THEN <<>>
  ELSE (IF Head(keep) THEN <<Head(cases)>> ELSE <<>>)
         \o KeptCases(Tail(cases), Tail(keep))

\* the loops of deduplicate_test_cases run on cases: the final cases, keep
\* flags and merge history
DedupRun(cases) ==
  DedupOuter([cases  |-> cases,
              keep   |-> [i \in 1..Len(cases) |-> TRUE],
              merges |-> <<>>], 1)

\* deduplicate_test_cases(cases)
deduplicate_test_cases(cases) ==
  IF Len(cases) <= 1 THEN cases
  ELSE LET st == DedupRun(cases)
       IN  KeptCases(st.cases, st.keep)


(***************************************************************************)
(* test_parser.py                                                          *)
(***************************************************************************)
\* the GenerateRequest of the call (request_models.py); fixed
request ==
  [user_story |-> <<"As", "a", "user", "I", "want", "to", "log", "in">>,
   component_context |-> "Login Page",
   priority |-> "P1",
   target_format |-> "gherkin"]

FallbackStep(n, action, expected) ==
  [step_number |-> n, action |-> action, expected_result |-> expected]

\* TestCaseParser._build_fallback_case; src = 0 marks a synthesized case
_build_fallback_case(scenario_type) ==
  LET title ==
        CASE scenario_type = "negative" ->
               <<"Reject", "invalid", "input", "and", "return", "clear", "error">>
          [] scenario_type = "edge_case" ->
               <<"Handle", "boundary", "values", "without", "breaking", "flow">>
          [] OTHER ->
               <<"Complete", "primary", "user", "flow", "successfully">>
      steps ==
        CASE scenario_type = "negative" ->
               <<FallbackStep(1, <<"Submit", "invalid", "or", "unauthorized", "input">>,
                   <<"System", "rejects", "the", "request", "with", "a", "clear", "error", "message">>),
                 FallbackStep(2, <<"Check", "application", "state", "after", "rejection">>,
                   <<"No", "unintended", "data", "or", "state", "change", "is", "observed">>)>>
          [] scenario_type = "edge_case" ->
               <<FallbackStep(1, <<"Submit", "boundary", "or", "extreme", "input", "values">>,
                   <<"System", "handles", "input", "gracefully", "without", "crashing">>),
                 FallbackStep(2, <<"Verify", "feedback", "for", "out-of-range", "conditions">>,
                   <<"User", "receives", "deterministic", "and", "understandable",
                     "validation", "feedback">>)>>
          [] OTHER ->
               <<FallbackStep(1, <<"Perform", "the", "primary", "action", "with", "valid", "input">>,
                   <<"Operation", "succeeds", "and", "expected", "output", "is", "produced">>)>>
  IN  [src |-> 0,
       title |-> title,
       scenario_type |-> scenario_type,
       severity |-> SEVERITY_DEFAULTS(scenario_type),
       preconditions |-> <<"User is on Login Page">>,
       steps |-> steps_sequential(steps),
       tags |-> <<scenario_type, "fallback">>,
       is_edge_case |-> scenario_type \in {"edge_case", "boundary"}]

ExistingTypes(cases) == {cases[i].scenario_type : i \in 1..Len(cases)}

\* TestCaseParser._missing_required_types: the required types, in order,
\* that no case has
_missing_required_types(parsed_cases) ==
  LET absentType(t) == t \notin ExistingTypes(parsed_cases)
  IN  SelectSeq(RequiredTypes, absentType)

\* TestCaseParser._ensure_required_coverage, the loop from required type k on
RECURSIVE EnsureFrom(_, _, _)
\* a faulty variant: a fallback is appended for every required type
EnsureFromUnconditional(cases, added, k) ==
  IF k > Len(RequiredTypes) THEN [cases |-> cases, added |-> added]
  ELSE EnsureFrom(Append(cases, _build_fallback_case(RequiredTypes[k])), added + 1, k + 1)

EnsureFrom(cases, added, k) ==
  IF k > Len(RequiredTypes) THEN [cases |-> cases, added |-> added]
  ELSE IF RequiredTypes[k] \notin ExistingTypes(cases)
    THEN EnsureFrom(Append(cases, _build_fallback_case(RequiredTypes[k])), added + 1, k + 1)
    ELSE EnsureFrom(cases, added, k + 1)

\* a faulty variant: fallbacks are added only when nothing was parsed at all
EnsureOnlyWhenEmpty(parsed_cases) ==
  IF parsed_cases = <<>> THEN EnsureFrom(parsed_cases, 0, 1)
  ELSE [cases |-> parsed_cases, added |-> 0]

_ensure_required_coverage(parsed_cases) == EnsureFrom(parsed_cases, 0, 1)

\* the loop of parse() over the raw entries, from 1-based position i on;
\* acc = [parsed, malformed]
RECURSIVE ParseEntries(_, _, _)
\* a faulty variant: the first malformed entry ends the batch
ParseEntriesStopAtMalformed(raw_cases, i, acc) ==
  IF i > Len(raw_cases) THEN acc
  ELSE IF ~raw_cases[i].isObj
    THEN [acc EXCEPT !.malformed = @ + 1]
  ELSE LET r == _parse_single_case(raw_cases[i], i - 1)
       IN  IF r.ok
             THEN ParseEntries(raw_cases, i + 1, [acc EXCEPT !.parsed = Append(@, r.tc)])
             ELSE [acc EXCEPT !.malformed = @ + 1]

ParseEntries(raw_cases, i, acc) ==
  IF i > Len(raw_cases) THEN acc
  ELSE IF ~raw_cases[i].isObj
    THEN ParseEntries(raw_cases, i + 1, [acc EXCEPT !.malformed = @ + 1])
  ELSE LET r == _parse_single_case(raw_cases[i], i - 1)
       IN  IF r.ok
             THEN ParseEntries(raw_cases, i + 1, [acc EXCEPT !.parsed = Append(@, r.tc)])
             ELSE ParseEntries(raw_cases, i + 1, [acc EXCEPT !.malformed = @ + 1])

\* the loop "breakdown[t] = breakdown.get(t, 0) + 1" from case k on; acc is
\* the dict so far
RECURSIVE BreakdownLoop(_, _, _)
BreakdownLoop(cases, k, acc) ==
  IF k > Len(cases) THEN acc
  ELSE LET t   == cases[k].scenario_type
           got == IF t \in DOMAIN acc THEN acc[t] ELSE 0
       IN  BreakdownLoop(cases, k + 1,
             [u \in DOMAIN acc \cup {t} |-> IF u = t THEN got + 1 ELSE acc[u]])

\* the empty dict
EmptyDict == [u \in {} |-> 0]

\* the dict of TestSuiteResponse's default_factory, which parse() does not use
DefaultBreakdown == [u \in {"happy_path", "edge_case", "negative", "boundary"} |-> 0]

\* the breakdown dict: a key for every type that occurs, with its count
BreakdownFromDefault(cases) == BreakdownLoop(cases, 1, DefaultBreakdown)

Breakdown(cases) == BreakdownLoop(cases, 1, EmptyDict)

NoSuite ==
  [user_story_summary |-> <<>>, total_cases |-> 0,
   breakdown |-> Breakdown(<<>>), test_cases |-> <<>>]

\* the ", ".join(...) of the strict-mode message: the types it names
NamedInMessage(kind, missing_required) ==
  IF kind = "missing_types" THEN missing_required ELSE <<>>

\* required_count = max(min_cases, 1)
RequiredCount(mc) == IF mc > 1 THEN mc ELSE 1

\* TestCaseParser.parse(raw, request, strict, mc): everything it computes
\* and how it ends.
\*   kind = "suite"            parse() returned suite
\*   kind = "ValueError"       one of the two strict-mode raises (reason)
\*   kind = "ValidationError"  TestSuiteResponse(...) rejected a field
parse(raw, strict, mc) ==
  LET raw_cases == IF raw.test_cases.kind = "list" THEN raw.test_cases.items ELSE <<>>
      acc       == ParseEntries(raw_cases, 1, [parsed |-> <<>>, malformed |-> 0])
      survivors == deduplicate_test_cases(acc.parsed)
      missing_required == _missing_required_types(survivors)
      required_count   == RequiredCount(mc)
      covered   == _ensure_required_coverage(survivors)
      final     == IF strict THEN survivors ELSE covered.cases
      \* request.user_story[:100]: the story is shorter than 100 characters
      summary   == IF raw.user_story_summary.kind = "absent"
                     THEN Str(request.user_story)
                     ELSE raw.user_story_summary
      reason    == IF strict /\ Len(survivors) < required_count THEN "min_cases"
                   ELSE IF strict /\ missing_required # <<>> THEN "missing_types"
                   ELSE IF summary.kind # "str" THEN "user_story_summary"
                   ELSE "none"
      kind      == IF reason \in {"min_cases", "missing_types"} THEN "ValueError"
                   ELSE IF reason = "user_story_summary" THEN "ValidationError"
                   ELSE "suite"
  IN  [kind |-> kind,
       reason |-> reason,
       named |-> NamedInMessage(reason, missing_required),
       required_count |-> required_count,
       raw_count |-> Len(raw_cases),
       malformed_count |-> acc.malformed,
       parsed |-> acc.parsed,
       survivors |-> survivors,
       missing_required |-> missing_required,
       coverage_added |-> IF strict THEN 0 ELSE covered.added,
       suite |-> IF kind # "suite" THEN NoSuite
                 ELSE [user_story_summary |-> summary.text,
                       total_cases |-> Len(final),
                       breakdown |-> Breakdown(final),
                       test_cases |-> final]]


(***************************************************************************)
(* Inputs of parse(): the raw entries a payload is made of.                *)
(***************************************************************************)
Shown == Str(<<"page", "shown">>)

RawCase(st, title, tags, sev, pre, steps, edge) ==
  [isObj |-> TRUE, scenario_type |-> st, title |-> title, tags |-> tags,
   severity |-> sev, preconditions |-> pre, steps |-> steps, is_edge_case |-> edge]

\* an entry of test_cases that is not an object (a string, a number, null)
NotAnObject == [RawCase("", Absent, <<>>, "", <<>>, <<>>, FALSE) EXCEPT !.isObj = FALSE]

RawEntries ==
  { \* happy path, one step
    RawCase("happy_path", Str(<<"Login", "works">>), <<"auth">>, "critical", <<"x">>,
            <<ObjStep(Str(<<"Enter", "valid", "password">>), Shown)>>, FALSE),
    \* the same flow in two steps, type given by an alias; a near-duplicate
    RawCase("Positive", Str(<<"login", "succeeds">>), <<>>, "blocker", <<"x", "y">>,
            <<NumberedStep(5, Str(<<"enter", "valid">>), Shown),
              NumberedStep(9, Str(<<"password">>), Absent)>>, FALSE),
    \* negative by alias, with a step that is a bare string
    RawCase("error", Absent, <<>>, "major", <<>>,
            <<NumberedStep(2, Str(<<"enter", "invalid", "password">>), Shown),
              PlainStep(<<"submit">>)>>, FALSE),
    \* no usable type: classified by the title keyword "limit"
    RawCase("", Str(<<"password", "length", "limits">>), <<"ui">>, "", <<"z">>,
            <<ObjStep(Absent, Absent)>>, FALSE),
    \* a type outside the mandatory three
    RawCase("security", Str(<<"script", "in", "name">>), <<"xss">>, "critical", <<>>,
            <<ObjStep(Str(<<"enter", "script">>), Shown)>>, FALSE),
    \* a second happy path, unlike the first
    RawCase("happy", Str(<<"form", "submitted">>), <<>>, "minor", <<"y">>,
            <<ObjStep(Str(<<"submit", "form">>), Shown)>>, FALSE),
    \* an object TestCase rejects: no steps, title too short
    RawCase("negative", Str(<<"ok">>), <<>>, "minor", <<>>, <<>>, FALSE),
    NotAnObject }

RawCaseLists == UNION {[1..n -> RawEntries] : n \in 0..MaxRawCases}

\* the raw JSON objects: test_cases absent, not a list, or a list of entries;
\* user_story_summary absent, a string, or another JSON value
RawObjects ==
  { [test_cases |-> tcs, user_story_summary |-> sm] :
      tcs \in {[kind |-> "absent", items |-> <<>>], [kind |-> "other", items |-> <<>>]}
              \cup {[kind |-> "list", items |-> l] : l \in RawCaseLists},
      sm \in {Absent, Str(<<"Login", "story">>), NonStr} }

\* parse_out before parse() has run
NoParseOut ==
  [kind |-> "none", reason |-> "none", named |-> <<>>, required_count |-> 0,
   raw_count |-> 0, malformed_count |-> 0, parsed |-> <<>>, survivors |-> <<>>,
   missing_required |-> <<>>, coverage_added |-> 0, suite |-> NoSuite]

ParseInit ==
  /\ raw_data \in RawObjects
  /\ strict_mode \in BOOLEAN
  /\ min_cases \in 0..MaxMinCases
  /\ parse_pc = "call"
  /\ parse_out = NoParseOut

\* suite = parser.parse(raw_data, request, strict_mode=..., min_cases=...)
Parse ==
  /\ parse_pc = "call"
  /\ parse_pc' = "done"
  /\ parse_out' = parse(raw_data, strict_mode, min_cases)
  /\ UNCHANGED <<raw_data, strict_mode, min_cases, gen_vars, lim_vars, dedup_vars, conc_vars, aux_vars>>

ParseNext == Parse



(***************************************************************************)
(* Claims about parse()                                                    *)
(***************************************************************************)
SuiteTypes == ExistingTypes(parse_out.suite.test_cases)

ParseReturned == parse_pc = "done" /\ parse_out.kind = "suite"
ParseRaised   == parse_pc = "done" /\ parse_out.kind # "suite"

\* C1: with strict_mode = false, the suite returned by parse() holds at
\* least one case of each of happy_path, negative and edge_case, whatever
\* the raw object held.
C1_NonStrictCoverage ==
  (ParseReturned /\ ~strict_mode) =>
     \A k \in 1..Len(RequiredTypes) : RequiredTypes[k] \in SuiteTypes

\* C1 witness: a non-strict parse returned a suite in which parsed cases
\* survive and at least one mandatory category had to be filled in.
C1_Witness ==
  /\ ParseReturned /\ ~strict_mode
  /\ parse_out.survivors # <<>>
  /\ parse_out.coverage_added > 0
  /\ parse_out.malformed_count > 0

\* C2: with strict_mode = false, parse() returns a suite and never raises,
\* whatever test_cases, its entries and user_story_summary are; an absent or
\* non-list test_cases behaves exactly like an empty list.
C2_NonStrictNeverRaises ==
  (parse_pc = "done" /\ ~strict_mode) =>
     /\ parse_out.kind = "suite"
     /\ raw_data.test_cases.kind # "list" =>
          parse_out = parse([raw_data EXCEPT !.test_cases = [kind |-> "list", items |-> <<>>]],
                            strict_mode, min_cases)

\* C3: with strict_mode = true, parse() never synthesizes a fallback case:
\* it either fails with the strict-mode error (when the survivors are fewer
\* than max(min_cases, 1) or a mandatory category has no survivor), or
\* returns a suite made only of parsed cases, at least max(min_cases, 1) of
\* them, with all three mandatory categories present.
C3_StrictRejectsOrReturnsParsed ==
  (parse_pc = "done" /\ strict_mode) =>
     LET tooFew  == Len(parse_out.survivors) < RequiredCount(min_cases)
         lacking == parse_out.missing_required # <<>>
     IN  \/ /\ parse_out.kind = "ValueError"
            /\ tooFew \/ lacking
         \/ /\ parse_out.kind = "suite"
            /\ ~tooFew /\ ~lacking
            /\ parse_out.suite.test_cases = parse_out.survivors
            /\ \A i \in 1..Len(parse_out.suite.test_cases) :
                  parse_out.suite.test_cases[i].src # 0
            /\ Len(parse_out.suite.test_cases) >= RequiredCount(min_cases)
            /\ \A k \in 1..Len(RequiredTypes) : RequiredTypes[k] \in SuiteTypes

\* C4: every strict-mode error raised while one or more mandatory
\* categories have no surviving case names each missing category in its
\* message, whichever of the two strict conditions is violated.
C4_StrictErrorNamesMissing ==
  (parse_pc = "done" /\ strict_mode /\ parse_out.kind = "ValueError"
     /\ parse_out.missing_required # <<>>) =>
     SeqToSet(parse_out.missing_required) \subseteq SeqToSet(parse_out.named)


\* the raw entry a case of the suite was built from
RawOf(tc) == raw_data.test_cases.items[tc.src]

\* C21: in every case of a suite returned by parse() the step numbers are
\* 1..n in list order, and the steps are the raw steps in their raw order,
\* whatever step numbers the raw payload carried.
C21_StepsNumberedInOrder ==
  ParseReturned =>
    \A c \in 1..Len(parse_out.suite.test_cases) :
      LET tc == parse_out.suite.test_cases[c]
      IN  /\ Len(tc.steps) >= 1
          /\ \A k \in 1..Len(tc.steps) : tc.steps[k].step_number = k
          /\ tc.src # 0 =>
                /\ Len(tc.steps) = Len(RawOf(tc).steps)
                /\ \A k \in 1..Len(tc.steps) :
                      LET rs == RawOf(tc).steps[k]
                      IN  /\ rs.action.kind = "str" => tc.steps[k].action = rs.action.text
                          /\ (rs.isObj /\ rs.action.kind = "absent") =>
                                tc.steps[k].action = <<"Step", ToStr(k)>>
                          /\ rs.expected_result.kind = "str" =>
                                tc.steps[k].expected_result = rs.expected_result.text

\* a returned suite holds a case whose raw steps were numbered 5 and 9
C21_Witness ==
  /\ ParseReturned
  /\ \E c \in 1..Len(parse_out.suite.test_cases) :
        LET tc == parse_out.suite.test_cases[c]
        IN  /\ tc.src # 0
            /\ Len(tc.steps) = 2
            /\ RawOf(tc).steps[1].step_number = 5
            /\ RawOf(tc).steps[2].step_number = 9
            /\ tc.steps[1].step_number = 1 /\ tc.steps[2].step_number = 2
            /\ tc.steps[1].action # tc.steps[2].action


RECURSIVE SumOver(_, _)
SumOver(f, keys) ==
  IF keys = {} THEN 0
  ELSE LET k == CHOOSE x \in keys : TRUE
       IN  f[k] + SumOver(f, keys \ {k})

\* C22: a returned suite has total_cases = number of test cases = sum of the
\* breakdown counts; the breakdown has a key exactly for the scenario types
\* that occur, each with the number of cases of that type (never zero).
C22_TotalsAgree ==
  ParseReturned =>
    LET suite == parse_out.suite
    IN  /\ suite.total_cases = Len(suite.test_cases)
        /\ suite.total_cases = SumOver(suite.breakdown, DOMAIN suite.breakdown)
        /\ DOMAIN suite.breakdown = {suite.test_cases[i].scenario_type :
                                       i \in 1..Len(suite.test_cases)}
        /\ \A t \in DOMAIN suite.breakdown :
              /\ suite.breakdown[t] >= 1
              /\ suite.breakdown[t] =
                   Cardinality({i \in 1..Len(suite.test_cases) :
                                  suite.test_cases[i].scenario_type = t})

\* a suite of parsed and synthesized cases with a type that occurs twice and
\* a type outside the mandatory three
C22_Witness ==
  /\ ParseReturned
  /\ parse_out.coverage_added > 0
  /\ \E t \in DOMAIN parse_out.suite.breakdown : parse_out.suite.breakdown[t] = 2
  /\ "security" \in DOMAIN parse_out.suite.breakdown
  /\ parse_out.suite.total_cases >= 4


\* the entries of test_cases as parse() iterates over them
RawCasesOf(raw) == IF raw.test_cases.kind = "list" THEN raw.test_cases.items ELSE <<>>

\* the entry at position i is not an object, or TestStep / TestCase reject it
Malformed(i) ==
  \/ ~RawCasesOf(raw_data)[i].isObj
  \/ ~_parse_single_case(RawCasesOf(raw_data)[i], i - 1).ok

\* C31: a raw entry that is not an object, or whose construction raises, is
\* counted as malformed and skipped; every other entry of the batch is
\* parsed, in order; raw entries = parsed before dedup + malformed.
C31_MalformedSkippedNotFatal ==
  parse_pc = "done" =>
    LET n == Len(RawCasesOf(raw_data))
    IN  /\ parse_out.raw_count = n
        /\ n = Len(parse_out.parsed) + parse_out.malformed_count
        /\ parse_out.malformed_count = Cardinality({i \in 1..n : Malformed(i)})
        /\ \A i \in 1..n :
              ~Malformed(i) <=>
                 \E k \in 1..Len(parse_out.parsed) : parse_out.parsed[k].src = i
        /\ \A k \in 1..Len(parse_out.parsed) :
              parse_out.parsed[k] =
                _parse_single_case(RawCasesOf(raw_data)[parse_out.parsed[k].src],
                                   parse_out.parsed[k].src - 1).tc
        /\ \A k, l \in 1..Len(parse_out.parsed) :
              k < l => parse_out.parsed[k].src < parse_out.parsed[l].src

\* a batch with a non-object first, a rejected object second and a valid
\* case last, which was parsed
C31_Witness ==
  /\ parse_pc = "done"
  /\ Len(RawCasesOf(raw_data)) = 3
  /\ ~RawCasesOf(raw_data)[1].isObj
  /\ RawCasesOf(raw_data)[2].isObj /\ Malformed(2)
  /\ parse_out.malformed_count = 2
  /\ Len(parse_out.parsed) = 1 /\ parse_out.parsed[1].src = 3


\* the mandatory categories, in the order of the claim, that no surviving
\* parsed case has
UncoveredCategories ==
  LET uncovered(t) == \A i \in 1..Len(parse_out.survivors) :
                         parse_out.survivors[i].scenario_type # t
  IN  SelectSeq(<<"happy_path", "negative", "edge_case">>, uncovered)

\* C34: in non-strict mode parse() synthesizes a fallback only for a
\* mandatory category with no case surviving deduplication, one per such
\* category, appended after the surviving parsed cases in the order
\* happy_path, negative, edge_case; the fallbacks are created after
\* deduplication and none is removed or merged.
C34_FallbacksOnlyForUncovered ==
  (ParseReturned /\ ~strict_mode) =>
    LET cases == parse_out.suite.test_cases
        n     == Len(parse_out.survivors)
    IN  /\ parse_out.survivors = deduplicate_test_cases(parse_out.parsed)
        /\ \A i \in 1..n : parse_out.survivors[i].src # 0
        /\ Len(cases) = n + Len(UncoveredCategories)
        /\ Len(UncoveredCategories) <= 3
        /\ parse_out.coverage_added = Len(UncoveredCategories)
        /\ SubSeq(cases, 1, n) = parse_out.survivors
        /\ \A k \in 1..Len(UncoveredCategories) :
              cases[n + k] = _build_fallback_case(UncoveredCategories[k])

\* duplicates were merged, one category survived and the two others were
\* filled in
C34_Witness ==
  /\ ParseReturned /\ ~strict_mode
  /\ Len(parse_out.parsed) > Len(parse_out.survivors)
  /\ parse_out.survivors # <<>>
  /\ UncoveredCategories = <<"happy_path", "edge_case">>
  /\ Len(parse_out.suite.test_cases) = Len(parse_out.survivors) + 2


(***************************************************************************)
(* Backend responses and JSON extraction (both chains)                     *)
(***************************************************************************)
EmptyObj ==
  [test_cases |-> [kind |-> "absent", items |-> <<>>], user_story_summary |-> Absent]

\* what json.loads can give: a dict (obj holds its two fields of interest),
\* a list, a number, null; "broken" is text that is not JSON
JDict(tcs, sm) == [shape |-> "dict", obj |-> [test_cases |-> tcs, user_story_summary |-> sm]]
JList   == [shape |-> "list", obj |-> EmptyObj]
JScalar == [shape |-> "scalar", obj |-> EmptyObj]
JNull   == [shape |-> "null", obj |-> EmptyObj]
Broken  == [shape |-> "broken", obj |-> EmptyObj]

\* Python None; json.loads("null") is None as well
None == JNull

CaseList(items) == [kind |-> "list", items |-> items]

GHappy == RawCase("happy_path", Str(<<"Login", "works">>), <<>>, "critical", <<>>,
                  <<ObjStep(Str(<<"Enter", "valid", "password">>), Shown)>>, FALSE)
GNegative == RawCase("negative", Str(<<"Reject", "login">>), <<>>, "major", <<>>,
                  <<ObjStep(Str(<<"enter", "invalid", "password">>), Shown)>>, FALSE)
GEdge == RawCase("edge_case", Str(<<"password", "length", "limits">>), <<>>, "major", <<>>,
                  <<ObjStep(Str(<<"enter", "long", "password">>), Shown)>>, TRUE)

\* a response text: the JSON (or broken) body, bare ("plain"), inside a
\* Markdown fence ("fenced") or with prose before and after ("prose")
Text(wrap, body) == [wrap |-> wrap, body |-> body]
NoText == Text("plain", Broken)

\* the texts the backend may answer with; prose wraps dicts only
Texts ==
  { Text("plain", Broken),
    Text("plain", JNull),
    Text("fenced", JDict(CaseList(<<GHappy, GNegative, GEdge>>), Str(<<"Login", "story">>))),
    Text("prose", JDict(CaseList(<<GHappy>>), Absent)),
    Text("plain", JDict(CaseList(<<GNegative, GEdge>>), Absent)),
    Text("plain", JDict([kind |-> "absent", items |-> <<>>], Absent)),
    Text("plain", JDict(CaseList(<<GHappy, NotAnObject>>), Absent)),
    Text("plain", JDict([kind |-> "other", items |-> <<>>], NonStr)),
    Text("plain", JList),
    Text("plain", JScalar) }

\* _extract_json(raw): strip a fence, json.loads; failing that, the
\* substring from the first "{" to the last "}"
_extract_json(raw) ==
  IF raw.body.shape = "broken" THEN None
  ELSE IF raw.wrap \in {"plain", "fenced"} THEN raw.body
  ELSE IF raw.body.shape = "dict" THEN raw.body
  ELSE None

\* _fill_coverage_gaps: the required types with type_counts.get(rt, 0) == 0,
\* counted on the raw scenario_type values
GapMissing(parsed) ==
  LET items == parsed.obj.test_cases.items
      noneOf(rt) == \A i \in 1..Len(items) : items[i].scenario_type # rt
  IN  SelectSeq(RequiredTypes, noneOf)

\* _fill_coverage_gaps up to the gap-fill call: "return" parsed as it is,
\* "raise" (TypeError / AttributeError on a value of another shape), or
\* "call" the backend for the missing types
GapPlan(parsed) ==
  CASE parsed.shape = "scalar" -> "raise"
    [] parsed.shape = "list" -> "return"
    [] parsed.obj.test_cases.kind = "absent" -> "return"
    [] parsed.obj.test_cases.kind = "other" -> "raise"
    [] \E i \in 1..Len(parsed.obj.test_cases.items) :
          ~parsed.obj.test_cases.items[i].isObj -> "raise"
    [] GapMissing(parsed) = <<>> -> "return"
    [] OTHER -> "call"

\* _fill_coverage_gaps after the gap-fill call returned text raw:
\* parsed["test_cases"].extend(additional["test_cases"]) when there are any
GapMerge(parsed, raw) ==
  LET additional == _extract_json(raw)
  IN  CASE additional.shape = "scalar" -> [ok |-> FALSE, value |-> parsed]
        [] additional.shape = "dict" /\ additional.obj.test_cases.kind = "other" ->
             [ok |-> FALSE, value |-> parsed]
        [] additional.shape = "dict" /\ additional.obj.test_cases.kind = "list" ->
             [ok |-> TRUE,
              value |-> [parsed EXCEPT !.obj.test_cases.items =
                                          @ \o additional.obj.test_cases.items]]
        [] OTHER -> [ok |-> TRUE, value |-> parsed]

(***************************************************************************)
(* Errors of a backend call and their classification (_call_gemini)        *)
(***************************************************************************)
\* what the handler reads in str(e): "429"/"RESOURCE_EXHAUSTED" (rate),
\* "quota"/"billing" (quota), "404"/"not found" (notfound)
Errors == [rate : BOOLEAN, quota : BOOLEAN, notfound : BOOLEAN]
NoError == [rate |-> FALSE, quota |-> FALSE, notfound |-> FALSE]

\* the branch of the except block an error takes
Classify(e) ==
  IF e.rate /\ e.quota THEN "quota"
  ELSE IF e.rate THEN "rate_limit"
  ELSE IF e.notfound THEN "not_found"
  ELSE "other"

Pow2(n) == 2 ^ n


(***************************************************************************)
(* GeminiChain._call_gemini                                                *)
(***************************************************************************)
MaxKeys   == 2     \* bound: number of API keys configured
MaxModels == 2     \* bound: number of model names (primary + fallbacks)
GeminiMaxRetries == 3

NumCombos(st) == st.num_keys * st.num_models

\* no attempt made yet
NoOutcome == [made |-> FALSE, ok |-> FALSE, err |-> NoError, text |-> NoText,
              combo |-> 0, attempt |-> 0]

NoFailure == [raised |-> FALSE, error |-> NoError, key_count |-> 0, model_count |-> 0]

\* a fresh invocation of _call_gemini / _call_model for the given turn.
\* Bookkeeping that the code does not hold (read by the properties only):
\*   attempts_total  backend calls made in this invocation
\*   abandoned       combinations left without success
\*   successes       successful backend calls
\*   all_quota       every attempt so far failed in the quota branch
\*   last_outcome    what the latest backend call gave, and where
\*   last_status     status code of the latest HTTP response (secondary)
\*   acquires        acquire() calls of this invocation that were granted
StartCall(turn, rf) ==
  [pc |-> "acquire", turn |-> turn, combo_idx |-> 0, attempt |-> 0,
   last_error |-> NoError, result_text |-> NoText, sleep_s |-> 0,
   failure |-> NoFailure,
   depth |-> 0, outer_attempt |-> 0, response_format |-> rf, allow_fallback |-> rf,
   gh_error |-> "none", fallbacks |-> 0, last_status |-> 0,
   attempts_total |-> 0, abandoned |-> 0, successes |-> 0, all_quota |-> TRUE,
   acquires |-> 0, last_outcome |-> NoOutcome]

NoCall == [StartCall(0, FALSE) EXCEPT !.pc = "idle"]

\* a faulty variant: the first key's models being exhausted ends the call
NextComboStopsAfterFirstKey(c, st) ==
  IF c.combo_idx + 1 < st.num_models
    THEN [c EXCEPT !.combo_idx = @ + 1, !.attempt = 0, !.pc = "acquire",
                   !.sleep_s = 0, !.abandoned = @ + 1]
    ELSE [c EXCEPT !.pc = "failed", !.sleep_s = 0, !.abandoned = @ + 1,
                   !.failure = [raised |-> TRUE, error |-> c.last_error,
                                key_count |-> st.num_keys,
                                model_count |-> st.num_models]]

\* the inner for loop is left (break, or range exhausted): the next
\* (key, model) combination, or the RuntimeError after the last one
GeminiNextCombo(c, st) ==
  IF c.combo_idx + 1 < NumCombos(st)
    THEN [c EXCEPT !.combo_idx = @ + 1, !.attempt = 0, !.pc = "acquire",
                   !.sleep_s = 0, !.abandoned = @ + 1]
    ELSE [c EXCEPT !.pc = "failed", !.sleep_s = 0, !.abandoned = @ + 1,
                   !.failure = [raised |-> TRUE, error |-> c.last_error,
                                key_count |-> st.num_keys,
                                model_count |-> st.num_models]]

\* an attempt was made and raised e: what every variant records
Attempted(c, ok, e, text) ==
  [c EXCEPT !.attempts_total = @ + 1,
            !.all_quota = @ /\ ~ok /\ Classify(e) = "quota",
            !.successes = @ + (IF ok THEN 1 ELSE 0),
            !.last_outcome = [made |-> TRUE, ok |-> ok, err |-> e, text |-> text,
                              combo |-> c.combo_idx, attempt |-> c.attempt]]

\* a faulty variant: a quota error is retried like a transient rate limit
OnErrorQuotaRetried(c, e, st) ==
  LET c1 == [Attempted(c, FALSE, e, NoText) EXCEPT !.last_error = e]
  IN  IF Classify(e) \in {"quota", "rate_limit"}
        THEN [c1 EXCEPT !.pc = "sleep", !.sleep_s = Pow2(c.attempt) * 3]
      ELSE IF Classify(e) = "not_found" THEN GeminiNextCombo(c1, st)
      ELSE IF c.attempt < st.max_retries - 1
        THEN [c1 EXCEPT !.pc = "sleep", !.sleep_s = Pow2(c.attempt)]
      ELSE GeminiNextCombo(c1, st)

\* a faulty variant: the text is kept but the loop goes on
OnSuccessNoReturn(c, text) ==
  IF c.attempt + 1 < GeminiMaxRetries
    THEN [Attempted(c, TRUE, NoError, text) EXCEPT !.attempt = @ + 1,
                                                   !.pc = "acquire", !.result_text = text]
    ELSE [Attempted(c, TRUE, NoError, text) EXCEPT !.pc = "ok", !.result_text = text]

\* a faulty variant: another error sleeps and retries without a bound on
\* the attempts
OnErrorOtherAlwaysSleeps(c, e, st) ==
  LET c1 == [Attempted(c, FALSE, e, NoText) EXCEPT !.last_error = e]
  IN  CASE Classify(e) = "quota"      -> GeminiNextCombo(c1, st)
        [] Classify(e) = "rate_limit" ->
             [c1 EXCEPT !.pc = "sleep", !.sleep_s = Pow2(c.attempt) * 3]
        [] Classify(e) = "not_found"  -> GeminiNextCombo(c1, st)
        [] OTHER -> [c1 EXCEPT !.pc = "sleep", !.sleep_s = Pow2(c.attempt)]

\* the except block of _call_gemini for error e
GeminiOnError(c, e, st) ==
  LET c1 == [Attempted(c, FALSE, e, NoText) EXCEPT !.last_error = e]
  IN  CASE Classify(e) = "quota"      -> GeminiNextCombo(c1, st)
        [] Classify(e) = "rate_limit" ->
             [c1 EXCEPT !.pc = "sleep", !.sleep_s = Pow2(c.attempt) * 3]
        [] Classify(e) = "not_found"  -> GeminiNextCombo(c1, st)
        [] OTHER ->
             IF c.attempt < st.max_retries - 1
               THEN [c1 EXCEPT !.pc = "sleep", !.sleep_s = Pow2(c.attempt)]
               ELSE GeminiNextCombo(c1, st)

\* return response.text
GeminiOnSuccess(c, text) ==
  [Attempted(c, TRUE, NoError, text) EXCEPT !.pc = "ok", !.result_text = text]

\* a faulty variant: the retry after a sleep goes to the backend at once
AfterSleepNoAcquire(c, st) ==
  IF c.attempt + 1 < st.max_retries
    THEN [c EXCEPT !.attempt = @ + 1, !.pc = "send", !.sleep_s = 0]
    ELSE GeminiNextCombo(c, st)

\* acquire() returned: the statements up to the backend call follow without
\* a suspension
AcquireGranted(c) == [c EXCEPT !.pc = "send", !.acquires = @ + 1]

\* asyncio.sleep returned: the next iteration of for attempt in range(max_retries)
GeminiAfterSleep(c, st) ==
  IF c.attempt + 1 < st.max_retries
    THEN [c EXCEPT !.attempt = @ + 1, !.pc = "acquire", !.sleep_s = 0]
    ELSE GeminiNextCombo(c, st)

\* await GeminiChain._rate_limiter.acquire(): always granted in the end
GeminiAcquire ==
  /\ gateway = "gemini"
  /\ call.pc = "acquire"
  /\ call' = AcquireGranted(call)
  /\ UNCHANGED <<gateway, settings, gen, parse_vars, lim_vars, dedup_vars, conc_vars, aux_vars>>

\* asyncio.to_thread(model.generate_content, prompt) returns a response
GeminiSuccess ==
  /\ gateway = "gemini"
  /\ call.pc = "send"
  /\ \E text \in Texts : call' = GeminiOnSuccess(call, text)
  /\ UNCHANGED <<gateway, settings, gen, parse_vars, lim_vars, dedup_vars, conc_vars, aux_vars>>

\* ... or raises
GeminiError ==
  /\ gateway = "gemini"
  /\ call.pc = "send"
  /\ \E e \in Errors : call' = GeminiOnError(call, e, settings)
  /\ UNCHANGED <<gateway, settings, gen, parse_vars, lim_vars, dedup_vars, conc_vars, aux_vars>>

GeminiWake ==
  /\ gateway = "gemini"
  /\ call.pc = "sleep"
  /\ call' = GeminiAfterSleep(call, settings)
  /\ UNCHANGED <<gateway, settings, gen, parse_vars, lim_vars, dedup_vars, conc_vars, aux_vars>>


(***************************************************************************)
(* generate() of GeminiChain and GitHubModelsChain                         *)
(***************************************************************************)
NoResult == [kind |-> "none", value |-> None]

\* generate() at its start, the turn-1 call not yet begun.
\*   calls[t]   invocations of _call_gemini/_call_model made for turn t
\*   extract1/2 what _extract_json gave on turn 1 / the correction turn
\*   base       the object as first obtained (a copy: generate() itself
\*              keeps only parsed, which gap-fill extends in place)
\*   gap        how the gap-fill stage went
GenStart ==
  [pc |-> "turn1", parsed |-> None, extract1 |-> None, extract2 |-> None,
   got1 |-> FALSE, got2 |-> FALSE, base |-> None, gap |-> "none",
   calls |-> [t \in 1..3 |-> IF t = 1 THEN 1 ELSE 0], result |-> NoResult]

\* response_format is passed when enable_json_schema is set (secondary only)
UsesSchema(gw, st) == gw = "github" /\ st.enable_json_schema

\* gap-fill runs always in GeminiChain, and if enable_gap_fill in GitHubModelsChain
GapFillOn(gw, st) == gw = "gemini" \/ st.enable_gap_fill

Returned(g, value, gap) ==
  [gen |-> [g EXCEPT !.pc = "done", !.parsed = value, !.gap = gap,
                     !.result = [kind |-> "returned", value |-> value]],
   call |-> NoCall]

Raised(g, kind, gap) ==
  [gen |-> [g EXCEPT !.pc = "done", !.gap = gap,
                     !.result = [kind |-> kind, value |-> None]],
   call |-> NoCall]

\* generate() from the point where parsed is a valid object: the optional
\* turn 3, _fill_coverage_gaps, up to its backend call
FillCoverageGaps(g, parsed, gw, st) ==
  LET g1 == [g EXCEPT !.parsed = parsed, !.base = parsed]
  IN  IF ~GapFillOn(gw, st) THEN Returned(g1, parsed, "disabled")
      ELSE CASE GapPlan(parsed) = "return" -> Returned(g1, parsed, "not_needed")
             [] GapPlan(parsed) = "raise"  -> Raised(g1, "TypeError", "error")
             [] OTHER ->
                  [gen |-> [g1 EXCEPT !.pc = "turn3", !.calls[3] = @ + 1],
                   call |-> StartCall(3, UsesSchema(gw, st))]

\* the turn-1 call returned raw_response: extract, then correct or go on
AfterTurn1(g, raw_response, gw, st) ==
  LET parsed == _extract_json(raw_response)
      g1 == [g EXCEPT !.extract1 = parsed, !.got1 = TRUE]
  IN  IF parsed = None
        THEN [gen |-> [g1 EXCEPT !.pc = "turn2", !.calls[2] = @ + 1],
              call |-> StartCall(2, UsesSchema(gw, st))]
        ELSE FillCoverageGaps(g1, parsed, gw, st)

\* a faulty variant: the gap-fill call is made although no object was obtained
AfterTurn2GapFillAnyway(g, raw_response_2, gw, st) ==
  LET parsed == _extract_json(raw_response_2)
      g1 == [g EXCEPT !.extract2 = parsed, !.got2 = TRUE]
  IN  IF parsed = None
        THEN [gen |-> [g1 EXCEPT !.pc = "turn3", !.calls[3] = @ + 1],
              call |-> StartCall(3, UsesSchema(gw, st))]
        ELSE FillCoverageGaps(g1, parsed, gw, st)

\* a faulty variant: a correction that yields no JSON is followed by another
AfterTurn2CorrectsAgain(g, raw_response_2, gw, st) ==
  LET parsed == _extract_json(raw_response_2)
      g1 == [g EXCEPT !.extract2 = parsed, !.got2 = TRUE]
  IN  IF parsed = None
        THEN [gen |-> [g1 EXCEPT !.pc = "turn2", !.calls[2] = @ + 1],
              call |-> StartCall(2, UsesSchema(gw, st))]
        ELSE FillCoverageGaps(g1, parsed, gw, st)

\* the correction call returned raw_response_2
AfterTurn2(g, raw_response_2, gw, st) ==
  LET parsed == _extract_json(raw_response_2)
      g1 == [g EXCEPT !.extract2 = parsed, !.got2 = TRUE]
  IN  IF parsed = None
        THEN Raised(g1, "ValueError", "none")
        ELSE FillCoverageGaps(g1, parsed, gw, st)

\* the gap-fill call returned raw
AfterTurn3(g, raw) ==
  LET m == GapMerge(g.parsed, raw)
  IN  IF m.ok THEN Returned(g, m.value, "merged")
      ELSE Raised(g, "TypeError", "error")

\* _call_gemini/_call_model raised: nothing in generate() or in
\* _fill_coverage_gaps catches it
AfterCallFailed(g) ==
  Raised(g, "RuntimeError", IF g.pc = "turn3" THEN "call_failed" ELSE g.gap)

GenTurn1Returned ==
  /\ gen.pc = "turn1" /\ call.pc = "ok"
  /\ LET n == AfterTurn1(gen, call.result_text, gateway, settings)
     IN  gen' = n.gen /\ call' = n.call
  /\ UNCHANGED <<gateway, settings, parse_vars, lim_vars, dedup_vars, conc_vars, aux_vars>>

GenTurn2Returned ==
  /\ gen.pc = "turn2" /\ call.pc = "ok"
  /\ LET n == AfterTurn2(gen, call.result_text, gateway, settings)
     IN  gen' = n.gen /\ call' = n.call
  /\ UNCHANGED <<gateway, settings, parse_vars, lim_vars, dedup_vars, conc_vars, aux_vars>>

GenTurn3Returned ==
  /\ gen.pc = "turn3" /\ call.pc = "ok"
  /\ LET n == AfterTurn3(gen, call.result_text)
     IN  gen' = n.gen /\ call' = n.call
  /\ UNCHANGED <<gateway, settings, parse_vars, lim_vars, dedup_vars, conc_vars, aux_vars>>

GenCallFailed ==
  /\ gen.pc \in {"turn1", "turn2", "turn3"} /\ call.pc = "failed"
  /\ LET n == AfterCallFailed(gen)
     IN  gen' = n.gen /\ call' = n.call
  /\ UNCHANGED <<gateway, settings, parse_vars, lim_vars, dedup_vars, conc_vars, aux_vars>>


(***************************************************************************)
(* GitHubModelsChain._call_model                                           *)
(***************************************************************************)
MaxGhRetries == 2     \* bound on settings.github_models_max_retries

\* HTTP responses of the backend; text is the content _extract_text gives
\* (empty = TRUE: a 200 whose content is empty or missing); schema_msg:
\* _is_response_format_error(error_message)
Response(status, schema_msg, empty, text) ==
  [status |-> status, schema_msg |-> schema_msg, empty |-> empty, text |-> text]

Responses ==
  {Response(200, FALSE, FALSE, t) : t \in Texts}
    \cup {Response(200, FALSE, TRUE, NoText)}
    \cup {Response(st, sm, FALSE, NoText) : st \in {400, 422}, sm \in BOOLEAN}
    \cup {Response(429, FALSE, FALSE, NoText), Response(500, FALSE, FALSE, NoText)}

\* raise RuntimeError("GitHub Models generation failed ...") out of the
\* outermost _call_model
GhFailed(c) == [c EXCEPT !.pc = "failed", !.sleep_s = 0]

\* the except block of the frame c is in, for an exception named err
GhCatch(c, err, st) ==
  IF c.attempt < st.max_retries - 1
    THEN [c EXCEPT !.gh_error = err, !.pc = "sleep", !.sleep_s = Pow2(c.attempt)]
    ELSE GhFailed([c EXCEPT !.gh_error = err])

\* break out of the retry loop of the frame c is in: the RuntimeError after
\* the loop.  Raised by the schema-less inner call (depth 1) it lands in the
\* except block of the outer frame, whose attempt counter and
\* response_format are in force again
GhBreak(c, st) ==
  IF c.depth = 1
    THEN GhCatch([c EXCEPT !.depth = 0, !.attempt = c.outer_attempt,
                           !.response_format = TRUE, !.allow_fallback = TRUE],
                 "generation_failed", st)
    ELSE GhFailed(c)

\* an exception inside the try block (acquire() raising, a network error,
\* a timeout, an empty 200)
GhOnException(c, err, st) ==
  IF c.attempt < st.max_retries - 1
    THEN [c EXCEPT !.gh_error = err, !.pc = "sleep", !.sleep_s = Pow2(c.attempt)]
    ELSE GhBreak([c EXCEPT !.gh_error = err], st)

\* client.post returned response r
GhOnResponse(c, r, st) ==
  LET c1 == [Attempted(c, r.status = 200 /\ ~r.empty, NoError, r.text)
               EXCEPT !.last_status = r.status]
  IN  IF r.status = 200
        THEN IF r.empty THEN GhOnException(c1, "empty_response", st)
             ELSE [c1 EXCEPT !.pc = "ok", !.result_text = r.text]
      ELSE IF c.response_format /\ c.allow_fallback
                /\ r.status \in {400, 422} /\ r.schema_msg
        THEN \* return await self._call_model(prompt, None, False)
             [c1 EXCEPT !.depth = 1, !.outer_attempt = c.attempt, !.attempt = 0,
                        !.response_format = FALSE, !.allow_fallback = FALSE,
                        !.pc = "acquire", !.fallbacks = @ + 1]
      ELSE IF r.status = 429 /\ c.attempt < st.max_retries - 1
        THEN [c1 EXCEPT !.gh_error = "http_error", !.pc = "sleep",
                        !.sleep_s = Pow2(c.attempt) * 3]
      ELSE GhBreak([c1 EXCEPT !.gh_error = "http_error"], st)

\* await GitHubModelsChain._rate_limiter.acquire() is granted
GhAcquireGranted ==
  /\ gateway = "github"
  /\ call.pc = "acquire"
  /\ call' = AcquireGranted(call)
  /\ UNCHANGED <<gateway, settings, gen, parse_vars, lim_vars, dedup_vars, conc_vars, aux_vars>>

\* ... or raises the daily-limit RuntimeError, inside the try block
GhAcquireQuotaExceeded ==
  /\ gateway = "github"
  /\ call.pc = "acquire"
  /\ call' = GhOnException(call, "quota_exceeded", settings)
  /\ UNCHANGED <<gateway, settings, gen, parse_vars, lim_vars, dedup_vars, conc_vars, aux_vars>>

GhResponse ==
  /\ gateway = "github"
  /\ call.pc = "send"
  /\ \E r \in Responses : call' = GhOnResponse(call, r, settings)
  /\ UNCHANGED <<gateway, settings, gen, parse_vars, lim_vars, dedup_vars, conc_vars, aux_vars>>

\* client.post raises (network error, timeout)
GhRequestError ==
  /\ gateway = "github"
  /\ call.pc = "send"
  /\ call' = GhOnException(Attempted(call, FALSE, NoError, NoText), "request_error", settings)
  /\ UNCHANGED <<gateway, settings, gen, parse_vars, lim_vars, dedup_vars, conc_vars, aux_vars>>

\* asyncio.sleep returned; continue
GhWake ==
  /\ gateway = "github"
  /\ call.pc = "sleep"
  /\ call' = [call EXCEPT !.attempt = @ + 1, !.pc = "acquire", !.sleep_s = 0]
  /\ UNCHANGED <<gateway, settings, gen, parse_vars, lim_vars, dedup_vars, conc_vars, aux_vars>>

(***************************************************************************)
(* One generate() request                                                  *)
(***************************************************************************)
GeminiSettings ==
  { [num_keys |-> k, num_models |-> m, max_retries |-> GeminiMaxRetries,
     enable_gap_fill |-> TRUE, enable_json_schema |-> FALSE] :
      k \in 1..MaxKeys, m \in 1..MaxModels }

GitHubSettings ==
  { [num_keys |-> 1, num_models |-> 1, max_retries |-> r,
     enable_gap_fill |-> gf, enable_json_schema |-> js] :
      r \in 1..MaxGhRetries, gf \in BOOLEAN, js \in BOOLEAN }

GenInit ==
  /\ gateway \in {"gemini", "github"}
  /\ settings \in (IF gateway = "gemini" THEN GeminiSettings ELSE GitHubSettings)
  /\ gen = GenStart
  /\ call = StartCall(1, UsesSchema(gateway, settings))

GenNext ==
  \/ GeminiAcquire
  \/ GeminiSuccess
  \/ GeminiError
  \/ GeminiWake
  \/ GhAcquireGranted
  \/ GhAcquireQuotaExceeded
  \/ GhResponse
  \/ GhRequestError
  \/ GhWake
  \/ GenTurn1Returned
  \/ GenTurn2Returned
  \/ GenTurn3Returned
  \/ GenCallFailed


(***************************************************************************)
(* Claims about generate() and _call_gemini                                *)
(***************************************************************************)
GenDone == gen.pc = "done"

\* value is the object base, possibly with gap-fill cases appended
IsObjectOrExtended(value, base) ==
  /\ value.shape = base.shape
  /\ value.obj.user_story_summary = base.obj.user_story_summary
  /\ value.obj.test_cases.kind = base.obj.test_cases.kind
  /\ Len(value.obj.test_cases.items) >= Len(base.obj.test_cases.items)
  /\ SubSeq(value.obj.test_cases.items, 1, Len(base.obj.test_cases.items))
       = base.obj.test_cases.items

\* C5: in generate() of both gateways: if no JSON can be extracted from the
\* turn-1 text, exactly one correction call is made; if JSON is extracted
\* from the correction text, generate() returns that corrected object; if
\* extraction fails on both turns, generate() fails with InvalidOutput
\* (ValueError); if turn 1 yields JSON, no correction call is made.
C5_CorrectionProtocol ==
  /\ (gen.got1 /\ gen.extract1 = None) => gen.calls[2] = 1
  /\ (gen.got1 /\ gen.extract1 # None) => gen.calls[2] = 0
  /\ (GenDone /\ gen.got2 /\ gen.extract2 # None) =>
        /\ gen.result.kind = "returned"
        /\ IsObjectOrExtended(gen.result.value, gen.extract2)
  /\ (GenDone /\ gen.got2 /\ gen.extract2 = None) => gen.result.kind = "ValueError"

\* an attempt of _call_gemini made in this step, and how it ended
GeminiAttemptStep ==
  /\ gateway = "gemini" /\ call.pc = "send"
  /\ call'.attempts_total = call.attempts_total + 1

KeyOf(idx)   == idx \div settings.num_models
ModelOf(idx) == idx % settings.num_models

\* idx2 is the combination after idx in credential-major, model-minor order
NextInOrder(idx, idx2) ==
  IF ModelOf(idx) + 1 < settings.num_models
    THEN KeyOf(idx2) = KeyOf(idx) /\ ModelOf(idx2) = ModelOf(idx) + 1
    ELSE KeyOf(idx2) = KeyOf(idx) + 1 /\ ModelOf(idx2) = 0

\* C6: in the primary gateway, an attempt on a (credential, model)
\* combination that fails with a rate-limit error carrying a quota/billing
\* signal, or with a model-not-found error, is the last attempt on that
\* combination in this call, and the next combination in credential-major,
\* model-minor order is tried (or the call ends after the last one); so as
\* long as every attempt ran into exhausted quota, each combination so far
\* has cost exactly one attempt.
C6_QuotaOrNotFoundAbandons ==
  /\ [][(GeminiAttemptStep /\ ~call'.last_outcome.ok
           /\ Classify(call'.last_outcome.err) \in {"quota", "not_found"}) =>
          \/ /\ call'.pc = "acquire" /\ call'.attempt = 0
             /\ NextInOrder(call.combo_idx, call'.combo_idx)
          \/ /\ call'.pc = "failed"
             /\ call.combo_idx = NumCombos(settings) - 1]_vars
  /\ [][(gateway = "gemini" /\ call'.turn = call.turn /\ call'.pc # "idle") =>
          call'.combo_idx >= call.combo_idx]_vars
  /\ [](gateway = "gemini" /\ call.pc \in {"acquire", "send"} /\ call.all_quota =>
          call.attempt = 0 /\ call.attempts_total = call.combo_idx)

\* C6 witness: the first key was quota-exhausted on each of its two models,
\* one attempt each, and the second key is now in use.
C6_Witness ==
  /\ gateway = "gemini" /\ settings.num_models = 2 /\ settings.num_keys = 2
  /\ call.pc = "send" /\ call.all_quota
  /\ KeyOf(call.combo_idx) = 1 /\ call.attempts_total = 2

\* C7: in the primary gateway's call loop the first successful backend
\* response ends the call: its text is what the call returns, and no later
\* attempt or combination is tried in that call.
C7_FirstSuccessEndsCall ==
  /\ [][(GeminiAttemptStep /\ call'.last_outcome.ok) =>
          call'.pc = "ok" /\ call'.result_text = call'.last_outcome.text]_vars
  /\ [][(gateway = "gemini" /\ call.pc = "ok") =>
          call'.pc = "idle" \/ call'.turn # call.turn]_vars
  /\ [](gateway = "gemini" => call.successes <= 1)

\* C7 witness: a call succeeded after failed attempts, with combinations
\* still untried.
C7_Witness ==
  /\ gateway = "gemini" /\ call.pc = "ok"
  /\ call.attempts_total >= 2
  /\ call.combo_idx < NumCombos(settings) - 1

\* C8: the primary gateway's call fails with GenerationFailed (RuntimeError)
\* if and only if every (credential, model) combination has been abandoned
\* without any success, and the failure carries the error of the last
\* attempt made together with the credential count and the model count.
C8_FailsIffAllAbandoned ==
  (gateway = "gemini" /\ call.pc # "idle") =>
     /\ call.pc = "failed" <=>
          (call.abandoned = NumCombos(settings) /\ call.successes = 0)
     /\ call.failure.raised <=> call.pc = "failed"
     /\ call.pc = "failed" =>
          /\ call.last_outcome.made /\ ~call.last_outcome.ok
          /\ call.failure.error = call.last_outcome.err
          /\ call.failure.key_count = settings.num_keys
          /\ call.failure.model_count = settings.num_models

\* C8 witness: a call over four combinations failed, with retries on the
\* way, and its last attempt was a model-not-found error.
C8_Witness ==
  /\ gateway = "gemini" /\ call.pc = "failed"
  /\ NumCombos(settings) = 4
  /\ call.attempts_total > 4
  /\ Classify(call.last_outcome.err) = "not_found"

\* C9: if turn 1 or the correction turn produced a valid object and the
\* gap-fill call then fails (every retry/fallback avenue exhausted, or any
\* other error during gap-fill), generate() still returns the already
\* parsed object, without extra cases, instead of failing.
C9_GapFillFailureNonFatal ==
  (GenDone /\ gen.calls[3] = 1 /\ gen.gap \in {"call_failed", "error"}) =>
     gen.result.kind = "returned" /\ gen.result.value = gen.base


\* a valid object has been obtained on turn 1 or on the correction turn
ObjectObtained == gen.base # None

\* at least one mandatory category has no entry among the object's test_cases
MissingCategory(parsed) ==
  \E k \in 1..Len(RequiredTypes) :
     \A i \in 1..Len(parsed.obj.test_cases.items) :
        parsed.obj.test_cases.items[i].scenario_type # RequiredTypes[k]

\* C24: once a valid object has been obtained and gap-fill is enabled,
\* generate() issues a gap-fill call exactly when at least one of
\* happy_path, negative, edge_case has zero entries among the object's
\* test_cases; at most one gap-fill turn is made; what generate() returns is
\* the original cases, unchanged and in order, followed by the cases of the
\* gap-fill turn.
C24_GapFillWhenCategoryMissing ==
  (ObjectObtained /\ GapFillOn(gateway, settings)) =>
     /\ gen.calls[3] <= 1
     /\ gen.calls[3] = 1 <=> MissingCategory(gen.base)
     /\ (GenDone /\ gen.result.kind = "returned") =>
           IsObjectOrExtended(gen.result.value, gen.base)


\* the turn generate() is waiting for
TurnOf(pc) == CASE pc = "turn1" -> 1 [] pc = "turn2" -> 2 [] pc = "turn3" -> 3 [] OTHER -> 0

\* a backend call of the request is in progress (not yet returned or failed)
CallInProgress == call.pc \notin {"idle", "ok", "failed"}

\* C26: within one generate() request the backend calls are strictly
\* sequential: generate() waits for one call at a time, the call of its
\* current turn; the correction call starts only after the turn-1 call has
\* returned (without JSON), the gap-fill call only after a valid object has
\* been obtained, each in a step in which the previous call has returned.
C26_CallsSequential ==
  /\ [](/\ CallInProgress => call.turn = TurnOf(gen.pc)
        /\ \A t \in 1..3 : gen.calls[t] <= 1
        /\ gen.calls[2] = 1 => (gen.got1 /\ gen.extract1 = None)
        /\ gen.calls[3] = 1 => (ObjectObtained /\ (gen.got1 \/ gen.got2))
        /\ GenDone => ~CallInProgress)
  /\ [][(call'.turn # call.turn /\ call'.turn # 0) =>
          /\ call.pc = "ok"
          /\ call'.turn > call.turn
          /\ call'.pc = "acquire" /\ call'.attempts_total = 0]_vars

\* the gap-fill call in flight after a turn 1 without JSON and a correction
C26_Witness ==
  /\ gen.calls = <<1, 1, 1>>
  /\ gen.pc = "turn3"
  /\ call.turn = 3 /\ call.pc = "send"


\* the latest attempt of the call in progress failed in the given branch of
\* the except block, and no attempt has been made since
LastAttemptFailedAs(branch) ==
  /\ gateway = "gemini"
  /\ call.last_outcome.made /\ ~call.last_outcome.ok
  /\ Classify(call.last_outcome.err) = branch

\* the call sleeps s seconds after its latest attempt
SleepsAfterLastAttempt(s) ==
  /\ call.pc = "sleep" /\ call.sleep_s = s
  /\ call.combo_idx = call.last_outcome.combo
  /\ call.attempt = call.last_outcome.attempt

\* the call is on (or about to make) the next attempt on the same combination
RetriesSameCombination ==
  /\ call.pc \in {"acquire", "send"}
  /\ call.combo_idx = call.last_outcome.combo
  /\ call.attempt = call.last_outcome.attempt + 1

\* C27: in the primary gateway, after a rate-limit error without quota
\* signal on attempt a (from 0) the gateway sleeps 3 * 2^a seconds and then
\* makes another attempt on the same (credential, model) combination.
C27_RateLimitSleepsAndRetries ==
  LastAttemptFailedAs("rate_limit") =>
     \/ SleepsAfterLastAttempt(3 * Pow2(call.last_outcome.attempt))
     \/ RetriesSameCombination


\* the combination of the latest attempt was left at once: the call is on
\* the first attempt of the next combination, or has failed after the last
AbandonedWithoutSleep ==
  \/ /\ call.pc \in {"acquire", "send"}
     /\ call.combo_idx = call.last_outcome.combo + 1
     /\ call.attempt = 0
  \/ /\ call.pc = "failed"
     /\ call.last_outcome.combo = NumCombos(settings) - 1

\* C28: in the primary gateway, after an error that is neither rate-limit
\* nor model-not-found on attempt a (from 0): if a < max_retries - 1 the
\* gateway sleeps 2^a seconds and retries the same combination, otherwise
\* it abandons the combination without sleeping; no combination receives
\* more than max_retries attempts in one call.
C28_OtherErrorBackoffBounded ==
  /\ [](LastAttemptFailedAs("other") =>
          IF call.last_outcome.attempt < settings.max_retries - 1
            THEN \/ SleepsAfterLastAttempt(Pow2(call.last_outcome.attempt))
                 \/ RetriesSameCombination
            ELSE AbandonedWithoutSleep)
  /\ []((gateway = "gemini" /\ call.pc # "idle") =>
          call.attempt >= 0 /\ call.attempt < settings.max_retries)
  /\ [][(GeminiAttemptStep /\ call.last_outcome.made
           /\ call.last_outcome.combo = call.combo_idx) =>
          call.attempt = call.last_outcome.attempt + 1]_vars

\* after two backoff sleeps the third error of this kind made the call move
\* on to the next combination at once
C28_Witness ==
  /\ LastAttemptFailedAs("other")
  /\ call.last_outcome.attempt = settings.max_retries - 1
  /\ call.attempts_total = settings.max_retries
  /\ call.pc = "acquire" /\ call.combo_idx = 1


\* the call of the secondary gateway has failed on a non-200 response with
\* the given status code
GhFailedOnStatus(status) ==
  /\ gateway = "github"
  /\ call.pc = "failed" /\ call.gh_error = "http_error"
  /\ call.last_status = status

\* C29: in both gateways a generic network error or a 5xx response of the
\* backend is retried with backoff on the same credential/model until the
\* bounded attempt count is exhausted, and only then escalated (the
\* combination abandoned, the call failed).
C29_GenericErrorRetriedUntilExhausted ==
  /\ (LastAttemptFailedAs("other")
        /\ ~SleepsAfterLastAttempt(Pow2(call.last_outcome.attempt))
        /\ ~RetriesSameCombination) =>
       call.last_outcome.attempt = settings.max_retries - 1
  /\ (gateway = "github" /\ call.pc = "failed" /\ call.gh_error = "request_error") =>
       call.attempt = settings.max_retries - 1
  /\ (gateway = "github" /\ call.pc = "sleep" /\ call.gh_error = "request_error") =>
       call.sleep_s = Pow2(call.attempt)
  /\ GhFailedOnStatus(500) =>
       call.last_outcome.attempt = settings.max_retries - 1


\* C30: one top-level call of the secondary gateway sends at most
\* max_retries HTTP requests to the backend, whatever the backend answers
\* (schema rejections included).
C30_RequestsBoundedByMaxRetries ==
  (gateway = "github" /\ call.pc # "idle") =>
     call.attempts_total <= settings.max_retries


\* backend calls of the current invocation that were started: those that
\* have ended and the one in flight
CallsStarted == call.attempts_total + (IF call.pc = "send" THEN 1 ELSE 0)

\* C38: every backend call of either gateway (turn 1, correction, gap-fill,
\* retries, the unconstrained schema-fallback call) is preceded by its own
\* granted acquire(): at every moment the backend calls started are at most
\* the acquire() calls granted, and each attempt that reaches the backend
\* has acquired exactly once.
C38_AcquireBeforeEveryCall ==
  /\ [](call.pc # "idle" =>
          /\ CallsStarted <= call.acquires
          /\ call.acquires = CallsStarted)
  /\ [][(call'.pc = "send" /\ call.pc # "send") =>
          (call.pc = "acquire" /\ call'.acquires = call.acquires + 1
             /\ call'.attempts_total = call.attempts_total)]_vars
  /\ [][call'.attempts_total # call.attempts_total =>
          (call.pc = "send" /\ call'.attempts_total = call.attempts_total + 1
             /\ call'.acquires = call.acquires)
          \/ (call'.attempts_total = 0 /\ call'.acquires = 0)]_vars

\* the unconstrained call after a schema rejection is in flight, after its
\* own acquire(), in the gap-fill turn
C38_Witness ==
  /\ gateway = "github" /\ call.turn = 3
  /\ call.depth = 1 /\ call.fallbacks = 1
  /\ call.pc = "send"
  /\ call.attempts_total = 1 /\ call.acquires = 2

\* a retry of the primary gateway's correction call is in flight
C38_RetryWitness ==
  /\ gateway = "gemini" /\ call.turn = 2
  /\ call.pc = "send" /\ call.attempt = 1
  /\ call.acquires = 2


\* the most backend calls one invocation of _call_gemini can make
CallBudget == settings.num_keys * settings.num_models * settings.max_retries

\* C39: given that every backend call returns or raises, generate() of the
\* primary gateway always terminates (returns an object or fails) after at
\* most 3 x credentials x models x max_retries backend calls: each of its at
\* most three invocations of _call_gemini (turn 1, correction, gap-fill,
\* each entered at most once) makes at most credentials x models x
\* max_retries calls.
C39_GenerateTerminates ==
  /\ [](gateway = "gemini" =>
          /\ call.attempts_total <= CallBudget
          /\ \A t \in 1..3 : gen.calls[t] <= 1
          /\ GenDone => ~CallInProgress)
  /\ (gateway = "gemini") ~> GenDone

\* a request of the primary gateway with two credentials and two models
\* went through all three turns, and its gap-fill invocation has ended
\* with its budget used up
C39_Witness ==
  /\ gateway = "gemini"
  /\ settings.num_keys = 2 /\ settings.num_models = 2
  /\ gen.calls = <<1, 1, 1>>
  /\ call.turn = 3 /\ call.pc \in {"ok", "failed"}
  /\ call.attempts_total = CallBudget

\* such a request has ended
C39_EndedWitness ==
  /\ gateway = "gemini" /\ GenDone
  /\ gen.calls = <<1, 1, 1>>


\* C14: in the secondary gateway, when acquire() fails with the daily-limit
\* error, the call fails right away: no backoff sleep is taken and no
\* further acquire() is attempted for that call.
C14_QuotaExceededFailsAtOnce ==
  (gateway = "github" /\ call.gh_error = "quota_exceeded") => call.pc = "failed"

\* C15: within one top-level call of the secondary gateway the fallback
\* from a schema-constrained call to an unconstrained call happens at most
\* once, and the unconstrained call never itself falls back.
C15_FallbackAtMostOnce ==
  gateway = "github" =>
    /\ call.fallbacks <= 1
    /\ call.depth = 1 => (~call.response_format /\ ~call.allow_fallback)


(***************************************************************************)
(* RateLimiter.acquire (gemini_chain.py and github_models_chain.py).       *)
(* Time is in whole seconds and advances in steps of ten.  interval is     *)
(* 60.0 / rpm in the code; the model keeps interval * rpm = 60 and         *)
(* compares durations multiplied by rpm, so that no rounding enters.       *)
(***************************************************************************)
NumCallers == 3      \* bound: coroutines sharing the limiter
MaxCalls   == 3      \* bound: acquire() calls made in one run
MaxClock   == 60     \* bound: the clock is not advanced past this
MaxDay     == 1      \* bound: days run from 0 to MaxDay

Callers == 1..NumCallers
NoOne   == 0

\* the rpm / rpd settings tried; 0 is raised to 1 by the constructor
Rpms == {0, 2, 3}
Rpds == {0, 2}

AtLeastOne(n) == IF n >= 1 THEN n ELSE 1

\* RateLimiter.__init__.  has_cap tells the two classes apart: only the one
\* in github_models_chain.py has rpd, _window_day and _requests_today.
RateLimiter(rpm, rpd, has_cap, day) ==
  [rpm |-> AtLeastOne(rpm),
   has_cap |-> has_cap,
   rpd |-> IF has_cap THEN AtLeastOne(rpd) ELSE 0,
   _last_request_time |-> 0,
   _window_day |-> day,
   _requests_today |-> 0,
   _lock |-> [locked |-> FALSE, waiters |-> <<>>, woken |-> NoOne]]

\* asyncio.Lock.acquire() returns at once only when the lock is not held
\* and nobody is queued for it
LockIgnored(lim) == TRUE

LockIsFree(lim) == ~lim._lock.locked /\ lim._lock.waiters = <<>>

\* a faulty variant: release() wakes the waiter that arrived last
LockReleaseLast(lim) ==
  [lim EXCEPT !._lock.locked = FALSE,
              !._lock.woken = IF lim._lock.waiters = <<>> THEN NoOne
                              ELSE lim._lock.waiters[Len(lim._lock.waiters)]]

\* asyncio.Lock.release() at the end of the async with block: unlock and
\* wake the first waiter
LockRelease(lim) ==
  [lim EXCEPT !._lock.locked = FALSE,
              !._lock.woken = IF lim._lock.waiters = <<>> THEN NoOne
                              ELSE Head(lim._lock.waiters)]

\* today != self._window_day: a new day opens a new window
RollWindow(lim, day) ==
  IF lim.has_cap /\ day # lim._window_day
    THEN [lim EXCEPT !._window_day = day, !._requests_today = 0]
    ELSE lim

\* self._last_request_time = time.monotonic(); self._requests_today += 1;
\* then the lock is released
RecordRequest(lim, now) ==
  LockRelease([lim EXCEPT !._last_request_time = now,
                          !._requests_today = IF lim.has_cap THEN @ + 1 ELSE @])

\* a faulty variant: the daily-limit error leaves the lock held
PacingSectionRaiseKeepsLock(lim, now, day) ==
  LET l1 == RollWindow([lim EXCEPT !._lock.locked = TRUE], day)
      elapsed == now - l1._last_request_time
  IN  IF l1.has_cap /\ l1._requests_today >= l1.rpd
        THEN [outcome |-> "raise", limiter |-> l1, wait |-> 0]
      ELSE IF elapsed * l1.rpm < 60
        THEN [outcome |-> "sleep", limiter |-> l1, wait |-> 60 - elapsed * l1.rpm]
      ELSE [outcome |-> "granted", limiter |-> RecordRequest(l1, now), wait |-> 0]

\* the body of acquire() from taking the lock up to its first suspension
\* or its end: "raise" (daily cap), "sleep" (wait = wait_time * rpm) or
\* "granted"
PacingSection(lim, now, day) ==
  LET l1 == RollWindow([lim EXCEPT !._lock.locked = TRUE], day)
      elapsed == now - l1._last_request_time
  IN  IF l1.has_cap /\ l1._requests_today >= l1.rpd
        THEN [outcome |-> "raise", limiter |-> LockRelease(l1), wait |-> 0]
      ELSE IF elapsed * l1.rpm < 60
        THEN [outcome |-> "sleep", limiter |-> l1, wait |-> 60 - elapsed * l1.rpm]
      ELSE [outcome |-> "granted", limiter |-> RecordRequest(l1, now), wait |-> 0]

\* a coroutine outside acquire().  While it is in acquire(): arrival is the
\* number of its call in order of arrival, queued whether it had to wait
\* for the lock, cap_out whether the daily cap was exhausted when it called
IdleCaller == [pc |-> "idle", slept_from |-> 0, wait |-> 0, queued |-> FALSE,
               arrival |-> 0, cap_out |-> FALSE]

\* a granted call of caller c, whose record in acquire() is me
Grant(c, me, now, day, slept) ==
  [caller |-> c, time |-> now, day |-> day, queued |-> me.queued, slept |-> slept,
   arrival |-> me.arrival]

\* a call that ended in the daily-limit RuntimeError
Denial(c, me, day) ==
  [caller |-> c, day |-> day, queued |-> me.queued,
   arrival |-> me.arrival, cap_out |-> me.cap_out]

\* the daily cap is exhausted for a call made on this day
CapExhausted(lim, day) ==
  lim.has_cap /\ RollWindow(lim, day)._requests_today >= lim.rpd

\* log: acquire() calls started, the grants in the order they were
\* recorded, and the calls that failed on the daily cap
NoLog == [started |-> 0, grants |-> <<>>, denials |-> <<>>]

\* caller c, with record me, ran the pacing section with result r
Entered(c, me, r, lg) ==
  /\ limiter' = r.limiter
  /\ callers' = [callers EXCEPT ![c] =
                   IF r.outcome = "sleep"
                     THEN [me EXCEPT !.pc = "sleeping", !.slept_from = clock,
                                     !.wait = r.wait]
                     ELSE IdleCaller]
  /\ log' = CASE r.outcome = "raise"   ->
                   [lg EXCEPT !.denials = Append(@, Denial(c, me, today))]
              [] r.outcome = "granted" ->
                   [lg EXCEPT !.grants = Append(@, Grant(c, me, clock, today, FALSE))]
              [] OTHER -> lg

\* a coroutine calls acquire(): it enters at once or queues for the lock
LimCall(c) ==
  /\ callers[c].pc = "idle"
  /\ log.started < MaxCalls
  /\ LET lg == [log EXCEPT !.started = @ + 1]
         me == [IdleCaller EXCEPT !.arrival = lg.started,
                                  !.cap_out = CapExhausted(limiter, today)]
     IN  IF LockIsFree(limiter)
           THEN Entered(c, me, PacingSection(limiter, clock, today), lg)
           ELSE /\ limiter' = [limiter EXCEPT !._lock.waiters = Append(@, c)]
                /\ callers' = [callers EXCEPT ![c] = [me EXCEPT !.pc = "waiting",
                                                                !.queued = TRUE]]
                /\ log' = lg
  /\ UNCHANGED <<clock, today, parse_vars, gen_vars, dedup_vars, conc_vars, aux_vars>>

\* the waiter woken by release() runs again and takes the lock
LimResume(c) ==
  /\ callers[c].pc = "waiting"
  /\ limiter._lock.woken = c
  /\ LET l1 == [limiter EXCEPT !._lock.woken = NoOne,
                               !._lock.waiters = SelectSeq(@, LAMBDA w : w # c)]
     IN  Entered(c, callers[c], PacingSection(l1, clock, today), log)
  /\ UNCHANGED <<clock, today, parse_vars, gen_vars, dedup_vars, conc_vars, aux_vars>>

\* asyncio.sleep(wait_time) is over: record the request and leave
LimWake(c) ==
  /\ callers[c].pc = "sleeping"
  /\ (clock - callers[c].slept_from) * limiter.rpm >= callers[c].wait
  /\ limiter' = RecordRequest(limiter, clock)
  /\ callers' = [callers EXCEPT ![c] = IdleCaller]
  /\ log' = [log EXCEPT !.grants =
                 Append(@, Grant(c, callers[c], clock, today, TRUE))]
  /\ UNCHANGED <<clock, today, parse_vars, gen_vars, dedup_vars, conc_vars, aux_vars>>

\* time passes
LimTick ==
  /\ clock + 10 <= MaxClock /\ clock' = clock + 10
  /\ UNCHANGED <<limiter, today, callers, log, parse_vars, gen_vars, dedup_vars, conc_vars, aux_vars>>

\* midnight passes; only the limiter with a daily cap reads the date
LimNewDay ==
  /\ limiter.has_cap
  /\ today < MaxDay
  /\ today' = today + 1
  /\ UNCHANGED <<limiter, clock, callers, log, parse_vars, gen_vars, dedup_vars, conc_vars, aux_vars>>

LimInit ==
  /\ today = 0
  /\ clock \in {0, 30}
  /\ limiter \in {RateLimiter(rpm, 0, FALSE, today) : rpm \in Rpms}
                   \cup {RateLimiter(rpm, rpd, TRUE, today) : rpm \in Rpms, rpd \in Rpds}
  /\ callers = [c \in Callers |-> IdleCaller]
  /\ log = NoLog

\* caller c is in asyncio.sleep(wait_time) and the time is not up
SleepNotOver(c) ==
  /\ callers[c].pc = "sleeping"
  /\ (clock - callers[c].slept_from) * limiter.rpm < callers[c].wait

\* time passes beyond MaxClock as long as a sleep is not over
LimTickWhileSleeping ==
  /\ clock + 10 > MaxClock
  /\ \E c \in Callers : SleepNotOver(c)
  /\ clock' = clock + 10
  /\ UNCHANGED <<limiter, today, callers, log, parse_vars, gen_vars, dedup_vars, conc_vars, aux_vars>>

LimNext ==
  \/ \E c \in Callers : LimCall(c)
  \/ \E c \in Callers : LimResume(c)
  \/ \E c \in Callers : LimWake(c)
  \/ LimTick
  \/ LimNewDay

\* the limiter with time that does not stop while a caller sleeps
LimFairNext ==
  \/ LimNext
  \/ LimTickWhileSleeping

\* fair scheduling: time passes, a woken waiter runs, a sleep that is over
\* returns
LimFairness ==
  /\ WF_vars(LimTick \/ LimTickWhileSleeping)
  /\ \A c \in Callers : WF_vars(LimResume(c)) /\ WF_vars(LimWake(c))

(***************************************************************************)
(* Claims about RateLimiter.acquire                                        *)
(***************************************************************************)
\* caller c is inside the async with block
InPacingSection(c) == callers[c].pc = "sleeping"

\* C10: on one limiter, for any number of sequential or concurrent
\* callers, the recorded times of any two successively granted acquire()
\* calls are at least 60/rpm seconds apart, and two callers are never
\* inside the pacing section at the same time.
C10_PacedAndSerialized ==
  /\ \A i \in 1..(Len(log.grants) - 1) :
        (log.grants[i + 1].time - log.grants[i].time) * limiter.rpm >= 60
  /\ \A c, d \in Callers : (InPacingSection(c) /\ InPacingSection(d)) => c = d
  /\ \A c \in Callers : InPacingSection(c) => limiter._lock.locked

\* C10 witness: three grants; the second went to a caller that had queued
\* behind the first and then slept the interval out to the second.
C10_Witness ==
  /\ Len(log.grants) >= 3
  /\ log.grants[1].caller # log.grants[2].caller
  /\ log.grants[2].queued /\ log.grants[2].slept
  /\ (log.grants[2].time - log.grants[1].time) * limiter.rpm = 60
  /\ log.grants[3].caller = log.grants[1].caller


\* C11: when the daily cap is exhausted, acquire() fails with the
\* daily-limit error without suspending the caller: a call made while the
\* cap is exhausted is never left waiting, and no call that ended in the
\* daily-limit error had been made to wait for the lock (in particular not
\* behind a caller that was sleeping out the pacing interval).
C11_CapFailsWithoutSuspending ==
  /\ \A c \in Callers : callers[c].pc = "waiting" => ~callers[c].cap_out
  /\ \A i \in 1..Len(log.denials) : ~log.denials[i].queued


\* grants recorded on calendar day d
GrantsOnDay(d) == {i \in 1..Len(log.grants) : log.grants[i].day = d}

\* C12: for a limiter with a daily cap, in any one calendar day at most rpd
\* acquire() calls are granted (a call that was waiting inside acquire()
\* while the date changed included), and the counter never passes rpd.
C12_DailyCap ==
  limiter.has_cap =>
    /\ \A d \in 0..MaxDay : Cardinality(GrantsOnDay(d)) <= limiter.rpd
    /\ limiter._requests_today <= limiter.rpd


InAcquire(c) == callers[c].pc # "idle"

\* C40: under fair scheduling every acquire() call eventually is granted or
\* fails with the daily-limit error, and the lock is free again afterwards,
\* also after such a failure: the lock is held only by a caller in its
\* pacing sleep, and no caller waits forever behind one that failed or was
\* granted.
C40_AcquireEventuallyReturns ==
  /\ \A c \in Callers : InAcquire(c) ~> ~InAcquire(c)
  /\ [](limiter._lock.locked => \E c \in Callers : InPacingSection(c))
  /\ []((\A c \in Callers : ~InAcquire(c)) =>
          (LockIsFree(limiter) /\ limiter._lock.woken = NoOne))
  /\ [](\A c \in Callers :
          callers[c].pc = "waiting" =>
            \/ limiter._lock.locked
            \/ limiter._lock.woken # NoOne)

\* one caller was granted after its pacing sleep, two that had queued behind
\* it failed on the daily cap one after the other, and the lock is free
C40_Witness ==
  /\ \A c \in Callers : ~InAcquire(c)
  /\ LockIsFree(limiter)
  /\ \E i \in 1..Len(log.grants) : log.grants[i].slept
  /\ Len(log.denials) = 2
  /\ \A i \in 1..Len(log.denials) : log.denials[i].queued


\* the call of caller c arrived at acquire() before the call of caller d
ArrivedBefore(c, d) == callers[c].arrival < callers[d].arrival

\* C13: callers waiting in acquire() on one limiter are granted it in the
\* order in which they arrived: the lock's queue is in arrival order, the
\* grants are recorded in arrival order, and no call is granted while a
\* call that arrived before it is still waiting.
C13_FifoByArrival ==
  /\ \A i, j \in 1..Len(limiter._lock.waiters) :
        i < j => ArrivedBefore(limiter._lock.waiters[i], limiter._lock.waiters[j])
  /\ \A i, j \in 1..Len(log.grants) :
        i < j => log.grants[i].arrival < log.grants[j].arrival
  /\ \A c \in Callers : \A i \in 1..Len(log.grants) :
        callers[c].pc = "waiting" => log.grants[i].arrival < callers[c].arrival

\* C13 witness: two callers are queued behind a grant just recorded, and
\* release() has woken the one that arrived first.
C13_Witness ==
  /\ Len(limiter._lock.waiters) = 2
  /\ limiter._lock.woken = limiter._lock.waiters[1]
  /\ ArrivedBefore(limiter._lock.waiters[1], limiter._lock.waiters[2])
  /\ Len(log.grants) = 1 /\ log.grants[1].slept


(***************************************************************************)
(* One request: generate_tests runs generate() and then parse()            *)
(* (routes_generate.py)                                                    *)
(***************************************************************************)
\* strict_mode and min_cases are read from the chain: GitHubModelsChain has
\* strict_quality_mode and min_cases, GeminiChain has neither (getattr
\* defaults False and 3)
RouteInit ==
  /\ GenInit
  /\ strict_mode \in (IF gateway = "github" THEN BOOLEAN ELSE {FALSE})
  /\ min_cases \in (IF gateway = "github" THEN 1..MaxMinCases ELSE {3})
  /\ raw_data = EmptyObj
  /\ parse_pc = "generate"
  /\ parse_out = NoParseOut

\* parse() on a value that is not a dict: raw_data.get raises AttributeError
NotADict == [NoParseOut EXCEPT !.kind = "AttributeError"]

\* suite = parser.parse(raw_data, request, strict_mode=..., min_cases=...)
\* on what generate() returned
RouteParse ==
  /\ gen.pc = "done" /\ gen.result.kind = "returned"
  /\ parse_pc = "generate"
  /\ parse_pc' = "done"
  /\ raw_data' = gen.result.value.obj
  /\ parse_out' = IF gen.result.value.shape = "dict"
                    THEN parse(gen.result.value.obj, strict_mode, min_cases)
                    ELSE NotADict
  /\ UNCHANGED <<strict_mode, min_cases, gen_vars, lim_vars, dedup_vars, conc_vars, aux_vars>>

RouteNext ==
  \/ GenNext
  \/ RouteParse

\* JSON was extracted from the turn-1 text or from the correction text
JsonObtained ==
  \/ gen.got1 /\ gen.extract1 # None
  \/ gen.got2 /\ gen.extract2 # None

\* C16: for a non-strict request, whenever JSON of any kind could be read
\* from the turn-1 text (or, failing that, from the correction text),
\* generate() followed by parse() yields a suite without error, holding at
\* least one case of each mandatory category.
C16_AnyJsonYieldsSuite ==
  (~strict_mode /\ GenDone /\ JsonObtained) =>
     /\ gen.result.kind = "returned"
     /\ parse_pc = "done" =>
          /\ parse_out.kind = "suite"
          /\ \A k \in 1..Len(RequiredTypes) : RequiredTypes[k] \in SuiteTypes


\* the number of cases in the object as first obtained; the raw entries
\* after them came from the gap-fill turn
BaseCount == Len(gen.base.obj.test_cases.items)

FromGapFill(tc) == tc.src > BaseCount

\* the merges deduplicate_test_cases made inside parse()
RequestMerges ==
  IF Len(parse_out.parsed) <= 1 THEN <<>> ELSE DedupRun(parse_out.parsed).merges

\* C23: gap-fill cases are never candidates for deduplication: in the suite
\* produced for a request no gap-fill case was removed by, or merged with,
\* another gap-fill case or a case of the main batch.
C23_GapFillNeverDeduplicated ==
  (parse_pc = "done" /\ parse_out.kind = "suite" /\ gen.gap = "merged") =>
     \A n \in 1..Len(RequestMerges) :
        /\ ~FromGapFill(parse_out.parsed[RequestMerges[n].keeper])
        /\ ~FromGapFill(parse_out.parsed[RequestMerges[n].removed])


(***************************************************************************)
(* deduplicate_test_cases on its own: the function applied to a list of    *)
(* TestCase objects as _parse_single_case builds them.                     *)
(***************************************************************************)
Vocab ==
  <<"w01", "w02", "w03", "w04", "w05", "w06", "w07", "w08", "w09", "w10",
    "w11", "w12", "w13", "w14", "w15", "w16", "w17", "w18", "w19", "w20">>

\* a raw case with the given type, preconditions and step actions
DedupRawCase(st, pre, actions) ==
  RawCase(st, Str(<<"Check", "login">>), <<>>, "major", pre,
          [j \in 1..Len(actions) |-> ObjStep(Str(actions[j]), Shown)], FALSE)

DedupRaw ==
  { \* 17 tokens, one step
    DedupRawCase("happy_path", <<"x">>, <<SubSeq(Vocab, 1, 17)>>),
    \* 20 tokens, one step: 17/20 with the case above; a precondition twice
    DedupRawCase("happy_path", <<"y", "x", "y">>, <<SubSeq(Vocab, 1, 20)>>),
    \* 19 tokens, two steps
    DedupRawCase("happy_path", <<"x", "y">>,
                 <<SubSeq(Vocab, 1, 16), SubSeq(Vocab, 17, 19)>>),
    \* 16 tokens, one step: 16/19 with the case above
    DedupRawCase("happy_path", <<>>, <<SubSeq(Vocab, 1, 16)>>),
    \* the 17 tokens again, three steps
    DedupRawCase("happy_path", <<"y">>,
                 <<SubSeq(Vocab, 1, 10), SubSeq(Vocab, 11, 16), <<"w17">>>>),
    \* the 17 tokens under another scenario type
    DedupRawCase("negative", <<"z">>, <<SubSeq(Vocab, 1, 17)>>),
    \* actions without a word: empty token sets
    DedupRawCase("happy_path", <<"x">>, <<<<"...">>>>),
    DedupRawCase("happy_path", <<"z", "x", "z">>, <<<<"...">>, <<"-->">>>>),
    \* the same words in another order, case and split into steps
    DedupRawCase("negative", <<"x">>, <<<<"Enter", "valid">>, <<"password">>>>),
    DedupRawCase("negative", <<"y", "x">>, <<<<"password", "enter", "valid">>>>) }

\* the cases parse() builds from a list of raw cases (test_parser.py: one
\* _parse_single_case per entry, in order)
ParsedCases(raws) == [i \in 1..Len(raws) |-> _parse_single_case(raws[i], i - 1).tc]

DedupInputs ==
  {ParsedCases(raws) : raws \in UNION {[1..n -> DedupRaw] : n \in 0..MaxDedupCases}}

NoDedupOut == [result |-> <<>>, cases |-> <<>>, keep |-> <<>>, merges |-> <<>>]

\* deduplicate_test_cases(cases): the list returned, with the final state of
\* its locals (cases after the merges, keep) and the merge history
Deduplicated(cases) ==
  LET st == IF Len(cases) <= 1
              THEN [cases  |-> cases,
                    keep   |-> [i \in 1..Len(cases) |-> TRUE],
                    merges |-> <<>>]
              ELSE DedupRun(cases)
  IN  [result |-> deduplicate_test_cases(cases),
       cases  |-> st.cases,
       keep   |-> st.keep,
       merges |-> st.merges]

DedupInit ==
  /\ dd_cases \in DedupInputs
  /\ dd_pc = "call"
  /\ dd_out = NoDedupOut

Deduplicate ==
  /\ dd_pc = "call"
  /\ dd_pc' = "done"
  /\ dd_out' = Deduplicated(dd_cases)
  /\ UNCHANGED <<dd_cases, parse_vars, gen_vars, lim_vars, conc_vars, aux_vars>>

DedupNext == Deduplicate


(***************************************************************************)
(* Claims about deduplicate_test_cases.                                    *)
(***************************************************************************)
DedupDone == dd_pc = "done"

Positions == 1..Len(dd_cases)

Tokens(i) == _tokenize_steps(dd_cases[i])

SameType(i, j) == dd_cases[i].scenario_type = dd_cases[j].scenario_type

\* |A n B| / |A u B| >= 0.85 for the token sets of the cases at i and j, two
\* empty sets counting as 1.0
AtLeast85(i, j) ==
  \/ Tokens(i) = {} /\ Tokens(j) = {}
  \/ /\ Tokens(i) \cup Tokens(j) # {}
     /\ 20 * Cardinality(Tokens(i) \cap Tokens(j)) >= 17 * Cardinality(Tokens(i) \cup Tokens(j))

C17_BelowWitness ==
  /\ DedupDone
  /\ Len(dd_cases) = 2 /\ SameType(1, 2)
  /\ Cardinality(Tokens(1) \cap Tokens(2)) = 16
  /\ Cardinality(Tokens(1) \cup Tokens(2)) = 19
  /\ Len(dd_out.result) = 2

\* two cases without any token collapsed into one
C17_EmptyWitness ==
  /\ DedupDone
  /\ Len(dd_cases) = 2 /\ Tokens(1) = {} /\ Tokens(2) = {}
  /\ Len(dd_out.result) = 1


StepCount(i) == Len(dd_cases[i].steps)

Merges == {dd_out.merges[n] : n \in 1..Len(dd_out.merges)}

\* C18: of two still-kept cases found to be duplicates, the one with
\* strictly more steps is retained; with equal step counts the one at the
\* lower original index is retained.
C18_MoreStepsOrFirstRetained ==
  DedupDone =>
    \A n \in 1..Len(dd_out.merges) :
      LET m == dd_out.merges[n]
      IN  /\ m.keeper # m.removed
          /\ \/ StepCount(m.keeper) > StepCount(m.removed)
             \/ StepCount(m.keeper) = StepCount(m.removed) /\ m.keeper < m.removed
          \* both were still kept when they were compared
          /\ \A k \in 1..(n - 1) :
                dd_out.merges[k].removed \notin {m.keeper, m.removed}
          /\ ~dd_out.keep[m.removed]

\* one call in which a tie went to the earlier case and a later case with
\* more steps replaced an earlier one
C18_Witness ==
  /\ DedupDone
  /\ \E m \in Merges :
        StepCount(m.keeper) = StepCount(m.removed) /\ m.keeper < m.removed
  /\ \E m \in Merges :
        StepCount(m.keeper) > StepCount(m.removed) /\ m.keeper > m.removed

\* an earlier case with more steps kept against a later one
C18_EarlierLongerWitness ==
  /\ DedupDone
  /\ \E m \in Merges :
        StepCount(m.keeper) > StepCount(m.removed) /\ m.keeper < m.removed


\* the elements of s in order of first occurrence, each once
RECURSIVE FirstOccurrences(_)
FirstOccurrences(s) ==
  IF s = <<>> THEN <<>>
  ELSE LET front == FirstOccurrences(SubSeq(s, 1, Len(s) - 1))
           last  == s[Len(s)]
       IN  IF last \in SeqToSet(front) THEN front ELSE Append(front, last)

Occurrences(s, x) == Cardinality({k \in 1..Len(s) : s[k] = x})

\* C19: a merge leaves the retained case with its previous preconditions
\* followed by the distinct preconditions of the discarded case that it did
\* not have, in order of first occurrence; a string that was absent before
\* the merge occurs exactly once afterwards.
C19_MergeAddsEachNewOnce ==
  DedupDone =>
    \A m \in Merges :
      LET had(pre) == pre \in SeqToSet(m.before)
          new(pre) == ~had(pre)
      IN  /\ m.after = m.before \o FirstOccurrences(SelectSeq(m.from, new))
          /\ \A pre \in SeqToSet(m.from) :
                new(pre) => Occurrences(m.after, pre) = 1


\* the case at position i, its preconditions apart
ExceptPreconditions(tc) == [tc EXCEPT !.preconditions = <<>>]

\* the case at input position i was the one retained when a duplicate pair
\* was found
RetainedInComparison(i) == \E m \in Merges : m.keeper = i

PreconditionsChanged(i) == dd_out.cases[i].preconditions # dd_cases[i].preconditions

\* C33: deduplicate changes nothing but precondition lists: title, scenario
\* type, severity, steps and tags of every case are after the call what they
\* were before, and the preconditions of a case change only when that case
\* was retained in a duplicate comparison.
C33_OnlyPreconditionsOfRetainedChange ==
  DedupDone =>
    /\ Len(dd_out.cases) = Len(dd_cases)
    /\ \A i \in Positions :
          /\ ExceptPreconditions(dd_out.cases[i]) = ExceptPreconditions(dd_cases[i])
          /\ PreconditionsChanged(i) => RetainedInComparison(i)
    /\ \A k \in 1..Len(dd_out.result) :
          \E i \in Positions :
             ExceptPreconditions(dd_out.result[k]) = ExceptPreconditions(dd_cases[i])

\* a retained case took over preconditions and the removed one is as it was
C33_Witness ==
  /\ DedupDone
  /\ \E i, j \in Positions :
        /\ \E m \in Merges : m.keeper = i /\ m.removed = j
        /\ PreconditionsChanged(i)
        /\ dd_cases[j].preconditions # <<>>
        /\ SeqToSet(dd_cases[i].preconditions) \ SeqToSet(dd_cases[j].preconditions) # {}
        /\ ~PreconditionsChanged(j)
        /\ \E k \in 1..Len(dd_out.result) : dd_out.result[k] = dd_out.cases[i]

\* a case took over preconditions and was removed by a later comparison
C33_ChangedThenRemovedWitness ==
  /\ DedupDone
  /\ \E i \in Positions : PreconditionsChanged(i) /\ ~dd_out.keep[i]


\* the token set of the k-th returned case
ResultTokens(k) == _tokenize_steps(dd_out.result[k])

\* the k-th and l-th returned cases are of one scenario type and their token
\* sets have a Jaccard similarity of 0.85 or more
ResultDuplicates(k, l) ==
  /\ dd_out.result[k].scenario_type = dd_out.result[l].scenario_type
  /\ \/ ResultTokens(k) \cup ResultTokens(l) = {}
     \/ 100 * Cardinality(ResultTokens(k) \cap ResultTokens(l))
           >= 85 * Cardinality(ResultTokens(k) \cup ResultTokens(l))

C37_ChainWitness ==
  /\ DedupDone
  /\ Len(dd_cases) = 3
  /\ SameType(1, 2) /\ SameType(2, 3)
  /\ AtLeast85(1, 2) /\ AtLeast85(2, 3) /\ ~AtLeast85(1, 3)


\* the input positions of the returned cases, in the order returned
ResultPositions == [k \in 1..Len(dd_out.result) |-> dd_out.result[k].src]

\* C20: the returned list is a subsequence of the input: the cases kept, each
\* once, in their original relative order, and no removed case.  A returned
\* case is the input object at its position; only its preconditions may have
\* grown by merges.
C20_ResultIsSubsequence ==
  DedupDone =>
    /\ \A k \in 1..Len(dd_out.result) :
          /\ ResultPositions[k] \in Positions
          /\ dd_out.keep[ResultPositions[k]]
          /\ dd_out.result[k] =
               [dd_cases[ResultPositions[k]] EXCEPT
                  !.preconditions = dd_out.result[k].preconditions]
    /\ \A k, l \in 1..Len(dd_out.result) :
          k < l => ResultPositions[k] < ResultPositions[l]
    /\ \A i \in Positions :
          dd_out.keep[i] <=> (\E k \in 1..Len(dd_out.result) : ResultPositions[k] = i)
    /\ \A r \in Positions :
          (\E m \in Merges : m.removed = r) <=> ~dd_out.keep[r]

\* the middle one of three cases removed, the outer two returned in order
C20_Witness ==
  /\ DedupDone
  /\ Len(dd_cases) = 3
  /\ dd_out.keep = <<TRUE, FALSE, TRUE>>
  /\ ResultPositions = <<1, 3>>


(***************************************************************************)
(* Overlapping requests of the primary gateway.  Each request runs its own *)
(* _call_gemini; genai.configure sets one credential for the process.  A   *)
(* coroutine runs without interruption between two awaits, so a step is    *)
(* the code from one await (acquire, to_thread, sleep) to the next.         *)
(***************************************************************************)
Requests == 1..NumRequests

\* what the backend may do in these runs: answer, or fail with a quota, a
\* transient rate-limit or another error
ConcText == Text("plain", JDict([kind |-> "absent", items |-> <<>>], Absent))

ConcErrors ==
  { [rate |-> TRUE,  quota |-> TRUE,  notfound |-> FALSE],
    [rate |-> TRUE,  quota |-> FALSE, notfound |-> FALSE],
    [rate |-> FALSE, quota |-> FALSE, notfound |-> FALSE] }

\* the api_key of combination idx: all_combos is keys (outer) x models (inner)
ComboKey(idx, st) == idx \div st.num_models

\* genai.configure(api_key=api_key) at the top of the combination loop: run
\* when request state c0 moved on to c1 and c1 starts a new combination
Configured(key, c0, c1, st) ==
  IF c1.pc = "acquire" /\ c1.combo_idx # c0.combo_idx
    THEN ComboKey(c1.combo_idx, st)
    ELSE key

ConcInit ==
  /\ gateway = "gemini"
  /\ settings \in GeminiSettings
  /\ gen = [GenStart EXCEPT !.pc = "rest"]
  /\ call = NoCall
  /\ configured_key = 0
  /\ reqs = [r \in Requests |-> NoCall]

\* a request reaches _call_gemini: first combination, configure, acquire
ConcBegin(r) ==
  /\ reqs[r].pc = "idle"
  /\ reqs' = [reqs EXCEPT ![r] = StartCall(1, FALSE)]
  /\ configured_key' = ComboKey(0, settings)
  /\ UNCHANGED <<parse_vars, gen_vars, lim_vars, dedup_vars, aux_vars>>

\* acquire() returned: generate_content starts in its thread
ConcAcquire(r) ==
  /\ reqs[r].pc = "acquire"
  /\ reqs' = [reqs EXCEPT ![r] = AcquireGranted(@)]
  /\ UNCHANGED <<configured_key, parse_vars, gen_vars, lim_vars, dedup_vars, aux_vars>>

ConcSuccess(r) ==
  /\ reqs[r].pc = "send"
  /\ reqs' = [reqs EXCEPT ![r] = GeminiOnSuccess(@, ConcText)]
  /\ UNCHANGED <<configured_key, parse_vars, gen_vars, lim_vars, dedup_vars, aux_vars>>

ConcError(r) ==
  /\ reqs[r].pc = "send"
  /\ \E e \in ConcErrors :
        LET c1 == GeminiOnError(reqs[r], e, settings)
        IN  /\ reqs' = [reqs EXCEPT ![r] = c1]
            /\ configured_key' = Configured(configured_key, reqs[r], c1, settings)
  /\ UNCHANGED <<parse_vars, gen_vars, lim_vars, dedup_vars, aux_vars>>

ConcWake(r) ==
  /\ reqs[r].pc = "sleep"
  /\ LET c1 == GeminiAfterSleep(reqs[r], settings)
     IN  /\ reqs' = [reqs EXCEPT ![r] = c1]
         /\ configured_key' = Configured(configured_key, reqs[r], c1, settings)
  /\ UNCHANGED <<parse_vars, gen_vars, lim_vars, dedup_vars, aux_vars>>

ConcNext ==
  \E r \in Requests :
    \/ ConcBegin(r)
    \/ ConcAcquire(r)
    \/ ConcSuccess(r)
    \/ ConcError(r)
    \/ ConcWake(r)

\* C25: when generate() requests of the primary gateway overlap, every
\* backend call executes while the process-wide configured credential is
\* the credential of the (credential, model) combination the call belongs
\* to.
C25_CallRunsUnderOwnCredential ==
  \A r \in Requests :
     reqs[r].pc = "send" => configured_key = ComboKey(reqs[r].combo_idx, settings)


(***************************************************************************)
(* _normalize_scenario_type on its own: raw cases with every kind of        *)
(* scenario_type, title and tags.                                          *)
(***************************************************************************)
\* raw "scenario_type" values: absent or empty, aliases (also in mixed case
\* and with spaces), and a string that is no alias
NormRawTypes ==
  {"", "Positive", " Edge Case", "error", "boundary", "security", "performance",
   "regression"}

NormTitles ==
  { Absent, NonStr,
    Str(<<"Login", "works">>),
    Str(<<"Reject", "login">>),
    Str(<<"password", "length", "limits">>),
    Str(<<"reject", "limits">>),
    Str(<<"xss", "overload">>),
    Str(<<"overload">>) }

NormTags == { <<>>, <<"auth">>, <<"invalid">>, <<"xss">>, <<"edge">>, <<"overload">> }

NormInputs ==
  { RawCase(st, title, tags, "", <<>>, <<>>, FALSE) :
      st \in NormRawTypes, title \in NormTitles, tags \in NormTags }

NormInit ==
  /\ norm_raw \in NormInputs
  /\ norm_pc = "call"
  /\ norm_out = "none"

Normalize ==
  /\ norm_pc = "call"
  /\ norm_out' = _normalize_scenario_type(norm_raw)
  /\ norm_pc' = "done"
  /\ UNCHANGED <<norm_raw, parse_vars, gen_vars, lim_vars, dedup_vars, conc_vars, inst_vars, budget_vars>>

NormNext == Normalize

\* the keyword classes in the order in which they are tried
KeywordClasses == <<"edge_case", "negative", "security", "performance">>

ClassKeywords(c) ==
  CASE c = "edge_case"   -> {"edge", "boundary", "limit", "corner", "extreme"}
    [] c = "negative"    -> {"invalid", "error", "fail", "reject", "unauthorized"}
    [] c = "security"    -> {"security", "xss", "csrf", "injection"}
    [] c = "performance" -> {"performance", "load", "latency", "stress"}

\* some keyword of class c occurs in the title or the tags of norm_raw
ClassMatches(c) ==
  \E w \in {norm_raw.title.text[i] : i \in 1..Len(norm_raw.title.text)}
          \cup {norm_raw.tags[i] : i \in 1..Len(norm_raw.tags)} :
     KeywordsIn(Lower(w)) \cap ClassKeywords(c) # {}

NormAliased == NormRawType(norm_raw.scenario_type) \in AliasKeys

\* C32: when the normalised raw scenario_type is an alias, the alias decides
\* whatever title and tags say; otherwise the first keyword class that
\* matches title + tags decides, in the order edge_case, negative, security,
\* performance; happy_path when none matches.
C32_AliasThenKeywordOrder ==
  norm_pc = "done" =>
    IF NormAliased
      THEN norm_out = aliases(NormRawType(norm_raw.scenario_type))
    ELSE IF \E k \in 1..4 : ClassMatches(KeywordClasses[k])
      THEN \E k \in 1..4 :
             /\ ClassMatches(KeywordClasses[k])
             /\ \A j \in 1..(k - 1) : ~ClassMatches(KeywordClasses[j])
             /\ norm_out = KeywordClasses[k]
    ELSE norm_out = "happy_path"

\* no alias, and title + tags match two classes: the earlier one decided
C32_Witness ==
  /\ norm_pc = "done"
  /\ ~NormAliased
  /\ ClassMatches("negative") /\ ClassMatches("security")
  /\ ~ClassMatches("edge_case")
  /\ norm_out = "negative"

\* an alias decided against the keywords of the title
C32_AliasWitness ==
  /\ norm_pc = "done"
  /\ NormAliased
  /\ ClassMatches("edge_case")
  /\ norm_out = "negative"

\* neither an alias nor a keyword
C32_DefaultWitness ==
  /\ norm_pc = "done"
  /\ ~NormAliased
  /\ \A k \in 1..4 : ~ClassMatches(KeywordClasses[k])
  /\ norm_out = "happy_path"

(***************************************************************************)
(* Gateway instances.  _build_generation_chain constructs a gateway for    *)
(* every request; the limiter is a class attribute.  _rate_limiter.id      *)
(* numbers the RateLimiter objects in the order of their creation, 0 for   *)
(* None.  The requests here run one after the other (overlapping callers   *)
(* of one limiter are the subject of the RateLimiter section).             *)
(***************************************************************************)
MaxChains    == 2    \* bound: constructor calls
MaxInstCalls == 2    \* bound: acquire() calls
MaxInstClock == 60   \* bound: the clock is not advanced past this

NoLimiter == [id |-> 0, obj |-> RateLimiter(0, 0, FALSE, 0)]

\* a faulty variant: every constructor call makes a new limiter
AlwaysNewLimiter(attr) == TRUE

\* "if GeminiChain._rate_limiter is None" / "if GitHubModelsChain._rate_limiter is None"
NewLimiterNeeded(attr) == attr.id = 0

InstInit ==
  /\ _rate_limiter = NoLimiter
  /\ chains = <<>>
  /\ inst_clock \in {0, 30}
  /\ inst_log = <<>>

\* GeminiChain() / GitHubModelsChain(): get_settings() reads the settings
\* afresh; without a credential the constructor raises before it reaches
\* the limiter
InstConstruct(has_cap) ==
  /\ Len(chains) < MaxChains
  /\ chains # <<>> => chains[1].has_cap = has_cap
  /\ \E credential \in BOOLEAN, rpm \in Rpms, rpd \in Rpds :
        LET attr == IF credential /\ NewLimiterNeeded(_rate_limiter)
                      THEN [id  |-> _rate_limiter.id + 1,
                            obj |-> RateLimiter(rpm, rpd, has_cap, 0)]
                      ELSE _rate_limiter
        IN  /\ _rate_limiter' = attr
            /\ chains' = Append(chains, [ok |-> credential, has_cap |-> has_cap,
                                         rpm |-> AtLeastOne(rpm),
                                         before |-> _rate_limiter, after |-> attr])
  /\ UNCHANGED <<inst_clock, inst_log, parse_vars, gen_vars, lim_vars, dedup_vars,
                 conc_vars, norm_vars, budget_vars>>

\* "await GeminiChain._rate_limiter.acquire()" by the instance made k-th,
\* from the call to its return or its RuntimeError
InstAcquire(k) ==
  /\ chains[k].ok
  /\ Len(inst_log) < MaxInstCalls
  /\ LET r    == PacingSection(_rate_limiter.obj, inst_clock, 0)
         woke == r.limiter._last_request_time + 60 \div r.limiter.rpm
         t    == IF r.outcome = "sleep" THEN woke ELSE inst_clock
     IN  /\ t <= MaxInstClock
         /\ inst_clock' = t
         /\ _rate_limiter' =
               [_rate_limiter EXCEPT !.obj = IF r.outcome = "sleep"
                                               THEN RecordRequest(r.limiter, t)
                                               ELSE r.limiter]
         /\ inst_log' = Append(inst_log,
                           [chain |-> k, limiter |-> _rate_limiter.id, time |-> t,
                            granted |-> r.outcome # "raise",
                            slept |-> r.outcome = "sleep"])
  /\ UNCHANGED <<chains, parse_vars, gen_vars, lim_vars, dedup_vars, conc_vars, norm_vars, budget_vars>>

\* time passes between requests
InstTick ==
  /\ inst_clock + 10 <= MaxInstClock /\ inst_clock' = inst_clock + 10
  /\ UNCHANGED <<_rate_limiter, chains, inst_log, parse_vars, gen_vars, lim_vars,
                 dedup_vars, conc_vars, norm_vars, budget_vars>>

InstNext ==
  \/ \E has_cap \in BOOLEAN : InstConstruct(has_cap)
  \/ \E k \in 1..Len(chains) : InstAcquire(k)
  \/ InstTick

\* the granted calls, in order
InstGrants == SelectSeq(inst_log, LAMBDA e : e.granted)

\* C35: all gateway instances of one backend constructed in one process use
\* one limiter, the one created by the first instance; constructing a later
\* instance neither replaces it nor resets its last-call time or daily
\* counter, so pacing and the daily cap hold across requests.
C35_OneLimiterPerProcess ==
  /\ _rate_limiter.id <= 1
  /\ \A k \in 1..Len(chains) :
        chains[k].ok =>
          /\ chains[k].after.id = 1
          /\ chains[k].before.id # 0 => chains[k].after = chains[k].before
          /\ chains[k].before.id = 0 => \A j \in 1..(k - 1) : ~chains[j].ok
  /\ \A n \in 1..Len(inst_log) : inst_log[n].limiter = 1
  /\ \A n \in 1..(Len(InstGrants) - 1) :
        (InstGrants[n + 1].time - InstGrants[n].time) * _rate_limiter.obj.rpm >= 60
  /\ _rate_limiter.obj.has_cap => Len(InstGrants) <= _rate_limiter.obj.rpd

\* a second instance was constructed, with another rpm setting, after the
\* first had been granted a call; its own call was paced after that one
C35_Witness ==
  /\ Len(chains) >= 2 /\ chains[1].ok /\ chains[2].ok
  /\ chains[2].before.obj._last_request_time > 0
  /\ chains[2].rpm # chains[2].before.obj.rpm
  /\ Len(inst_log) >= 2
  /\ inst_log[1].chain = 1 /\ inst_log[1].granted
  /\ inst_log[2].chain = 2 /\ inst_log[2].granted /\ inst_log[2].slept

\* the daily cap used up through one instance fails the call of the next
C35_CapWitness ==
  /\ Len(chains) >= 2 /\ chains[2].ok
  /\ chains[2].before.obj._requests_today = 1
  /\ \E n \in 1..Len(inst_log) : inst_log[n].chain = 2 /\ ~inst_log[n].granted

(***************************************************************************)
(* GitHubModelsChain._build_prompt_with_budget.  Texts are represented by  *)
(* their lengths in characters.  A prompt built by PromptBuilder.build is   *)
(* the base instructions (request included), followed, when context_code  *)
(* is given, by a frame around it and the context itself.                  *)
(***************************************************************************)
\* len("\n\n# Context truncated to fit model token budget.")
MarkerLen == 48

Larger(a, b)  == IF a >= b THEN a ELSE b
Smaller(a, b) == IF a <= b THEN a ELSE b

\* PromptBuilder.estimate_tokens, on the length of the prompt
estimate_tokens(prompt_len) == prompt_len \div 4

\* len(PromptBuilder.build(request, context_code)); context_len = 0 stands
\* for context_code = None or ""
build(inp, context_len) ==
  inp.base_len + (IF context_len > 0 THEN inp.frame_len + context_len ELSE 0)

\* self.max_input_tokens = max(settings.github_models_max_input_tokens, 512)
max_input_tokens(inp) == Larger(inp.setting, 512)

\* a prompt built with context_chars characters of context_code in it,
\* followed by the marker or not
BuiltPrompt(inp, context_chars, marker) ==
  [len           |-> build(inp, context_chars + (IF marker THEN MarkerLen ELSE 0)),
   base_len      |-> inp.base_len,
   context_chars |-> context_chars,
   marker        |-> marker]

_build_prompt_with_budget(inp) ==
  LET prompt           == BuiltPrompt(inp, inp.context_len, FALSE)
      estimated_tokens == estimate_tokens(prompt.len)
      base_prompt      == BuiltPrompt(inp, 0, FALSE)
      base_tokens      == estimate_tokens(base_prompt.len)
      available_context_tokens ==
        Larger(max_input_tokens(inp) - base_tokens - 128, 256)
      max_context_chars == Larger(1024, available_context_tokens * 4)
  IN  IF estimated_tokens <= max_input_tokens(inp) THEN prompt
      ELSE IF inp.context_len = 0 \/ base_tokens >= max_input_tokens(inp)
        THEN IF base_tokens < estimated_tokens THEN base_prompt ELSE prompt
      ELSE BuiltPrompt(inp, Smaller(inp.context_len, max_context_chars),
                       inp.context_len > max_context_chars)

\* github_models_max_input_tokens, the length of the base instructions, of
\* the frame the template puts around the context, and of context_code
BudgetInputs ==
  [setting     : {0, 512, 1024},
   base_len    : {800, 1600, 2000, 2048, 4000},
   frame_len   : {0, 40},
   context_len : {0, 100, 1000, 1024, 1025, 3000, 5000}]

NoPrompt == [len |-> 0, base_len |-> 0, context_chars |-> 0, marker |-> FALSE]

BudgetInit ==
  /\ budget_in \in BudgetInputs
  /\ budget_pc = "call"
  /\ budget_out = NoPrompt

BuildPromptWithBudget ==
  /\ budget_pc = "call"
  /\ budget_out' = _build_prompt_with_budget(budget_in)
  /\ budget_pc' = "done"
  /\ UNCHANGED <<budget_in, parse_vars, gen_vars, lim_vars, dedup_vars, conc_vars,
                 norm_vars, inst_vars>>

BudgetNext == BuildPromptWithBudget

\* the prompt with the whole context is estimated above max_input_tokens
OverBudget ==
  /\ budget_in.context_len > 0
  /\ estimate_tokens(build(budget_in, budget_in.context_len)) > max_input_tokens(budget_in)

\* C36: whenever the token estimate (length / 4) of the prompt including the
\* context exceeds max_input_tokens, the prompt that is sent keeps the base
\* instructions in full and carries a shortened context that ends with the
\* truncation marker.
C36_OverBudgetContextTruncated ==
  (budget_pc = "done" /\ OverBudget) =>
     /\ budget_out.base_len = budget_in.base_len
     /\ budget_out.context_chars > 0
     /\ budget_out.context_chars < budget_in.context_len
     /\ budget_out.marker

\* the part that holds: the base instructions are sent in full, context is
\* only ever cut at its end, and the marker is there exactly when it was cut
\* and not dropped altogether
C36_BaseKeptMarkerIffCut ==
  budget_pc = "done" =>
     /\ budget_out.base_len = budget_in.base_len
     /\ budget_out.context_chars <= budget_in.context_len
     /\ budget_out.marker <=>
           (0 < budget_out.context_chars /\ budget_out.context_chars < budget_in.context_len)

(***************************************************************************)
(* Specifications.  Each one runs one part of the program; the variables   *)
(* of the other parts stay at rest.                                        *)
(***************************************************************************)
ParseAtRest ==
  /\ raw_data = EmptyObj
  /\ strict_mode = FALSE
  /\ min_cases = 0
  /\ parse_pc = "rest"
  /\ parse_out = NoParseOut

GenAtRest ==
  /\ gateway = "none"
  /\ settings = [num_keys |-> 0, num_models |-> 0, max_retries |-> 0,
                 enable_gap_fill |-> FALSE, enable_json_schema |-> FALSE]
  /\ gen = [GenStart EXCEPT !.pc = "rest"]
  /\ call = NoCall

LimiterAtRest ==
  /\ limiter = RateLimiter(0, 0, FALSE, 0)
  /\ clock = 0
  /\ today = 0
  /\ callers = [c \in Callers |-> IdleCaller]
  /\ log = NoLog

DedupAtRest ==
  /\ dd_cases = <<>>
  /\ dd_pc = "rest"
  /\ dd_out = NoDedupOut

ConcAtRest ==
  /\ configured_key = 0
  /\ reqs = [r \in Requests |-> NoCall]

NormAtRest ==
  /\ norm_raw = NotAnObject
  /\ norm_pc = "rest"
  /\ norm_out = "none"

InstAtRest ==
  /\ _rate_limiter = NoLimiter
  /\ chains = <<>>
  /\ inst_clock = 0
  /\ inst_log = <<>>

BudgetAtRest ==
  /\ budget_in = [setting |-> 0, base_len |-> 0, frame_len |-> 0, context_len |-> 0]
  /\ budget_pc = "rest"
  /\ budget_out = NoPrompt

AuxAtRest ==
  /\ NormAtRest
  /\ InstAtRest
  /\ BudgetAtRest

SpecParseInit ==
  /\ ParseInit
  /\ GenAtRest
  /\ LimiterAtRest
  /\ DedupAtRest
  /\ ConcAtRest
  /\ AuxAtRest

SpecParse == SpecParseInit /\ [][ParseNext]_vars

SpecGenInit ==
  /\ GenInit
  /\ ParseAtRest
  /\ LimiterAtRest
  /\ DedupAtRest
  /\ ConcAtRest
  /\ AuxAtRest

SpecGen == SpecGenInit /\ [][GenNext]_vars

SpecLimiterInit ==
  /\ LimInit
  /\ ParseAtRest
  /\ GenAtRest
  /\ DedupAtRest
  /\ ConcAtRest
  /\ AuxAtRest

SpecLimiter == SpecLimiterInit /\ [][LimNext]_vars

SpecRequestInit ==
  /\ RouteInit
  /\ LimiterAtRest
  /\ DedupAtRest
  /\ ConcAtRest
  /\ AuxAtRest

SpecRequest == SpecRequestInit /\ [][RouteNext]_vars

SpecDedupInit ==
  /\ DedupInit
  /\ ParseAtRest
  /\ GenAtRest
  /\ LimiterAtRest
  /\ ConcAtRest
  /\ AuxAtRest

SpecDedup == SpecDedupInit /\ [][DedupNext]_vars

SpecConcurrentInit ==
  /\ ConcInit
  /\ ParseAtRest
  /\ LimiterAtRest
  /\ DedupAtRest
  /\ AuxAtRest

SpecConcurrent == SpecConcurrentInit /\ [][ConcNext]_vars

SpecNormalizeInit ==
  /\ NormInit
  /\ ParseAtRest
  /\ GenAtRest
  /\ LimiterAtRest
  /\ DedupAtRest
  /\ ConcAtRest
  /\ InstAtRest
  /\ BudgetAtRest

SpecNormalize == SpecNormalizeInit /\ [][NormNext]_vars

SpecInstancesInit ==
  /\ InstInit
  /\ ParseAtRest
  /\ GenAtRest
  /\ LimiterAtRest
  /\ DedupAtRest
  /\ ConcAtRest
  /\ NormAtRest
  /\ BudgetAtRest

SpecInstances == SpecInstancesInit /\ [][InstNext]_vars

SpecBudgetInit ==
  /\ BudgetInit
  /\ ParseAtRest
  /\ GenAtRest
  /\ LimiterAtRest
  /\ DedupAtRest
  /\ ConcAtRest
  /\ NormAtRest
  /\ InstAtRest

SpecBudget == SpecBudgetInit /\ [][BudgetNext]_vars

\* every backend call returns or raises, every sleep ends, acquire() is
\* granted in the end, and generate() runs on when its call has returned
SpecGenFair == SpecGenInit /\ [][GenNext]_vars /\ WF_vars(GenNext)

SpecLimiterFair == SpecLimiterInit /\ [][LimFairNext]_vars /\ LimFairness

====
